---- MODULE Spec2Model ----
(***************************************************************************)
(* Partitioned rolling aggregate of the database-stream-processor:         *)
(* the quaternary operator PartitionedRollingAggregate, the circuit that   *)
(* partitioned_rolling_aggregate_inner builds around it (input trace,      *)
(* radix tree, Z^-1 feedback of the output trace) and the watermark        *)
(* wrapper that windows the input and bounds the output trace.             *)
(*                                                                         *)
(* One step of the model is one clock tick of the circuit.                 *)
(***************************************************************************)
EXTENDS Integers, Sequences, FiniteSets, TLC

\* ------------------------------------------------------------------ bounds

\* Number of clock ticks explored.
MaxTicks == 2

\* Partition keys, timestamps and payloads.  TS is an unsigned integer type
\* whose values are TSs; MaxTS is its max_value().
PKs == {0, 1}
TSs == 0 .. 3
MaxTS == CHOOSE t \in TSs : \A u \in TSs : u <= t
Vals == {1, 2}
InRecs == PKs \X TSs \X Vals

\* Weights of the integrated input explored by the model.
IntWeights == -1 .. 2

\* --------------------------------------------------------------- options

None == << >>
Some(x) == << x >>
IsSome(o) == Len(o) = 1
Get(o) == o[1]

\* Option<i64> is ordered with None below every Some.
OptLess(a, b) ==
  IF a = None THEN b # None
  ELSE IF b = None THEN FALSE
  ELSE Get(a) < Get(b)

\* ------------------------------------------------------------ TS arithmetic

SaturatingSub(ts, off) == IF ts >= off THEN ts - off ELSE 0
SaturatingAdd(ts, off) == IF ts + off <= MaxTS THEN ts + off ELSE MaxTS
CheckedSub(ts, off) == IF ts >= off THEN Some(ts - off) ELSE None
CheckedAdd(ts, off) == IF ts + off <= MaxTS THEN Some(ts + off) ELSE None

\* ------------------------------------------------------------ relative ranges

Before(n) == [dir |-> "Before", n |-> n]
After(n) == [dir |-> "After", n |-> n]
RelRange(from, to) == [from |-> from, to |-> to]
Range(from, to) == [from |-> from, to |-> to]

\* RelRange::range_of: the absolute window of the anchor ts, None when an
\* end of the window leaves the domain of TS on the side it is anchored to.
RangeOf(rr, ts) ==
  LET from == IF rr.from.dir = "Before"
              THEN Some(SaturatingSub(ts, rr.from.n))
              ELSE CheckedAdd(ts, rr.from.n)
      to == IF rr.to.dir = "Before"
            THEN CheckedSub(ts, rr.to.n)
            ELSE Some(SaturatingAdd(ts, rr.to.n))
  IN IF IsSome(from) /\ IsSome(to) THEN Some(Range(Get(from), Get(to))) ELSE None

\* RelRange::affected_range_of: the timestamps whose window contains ts.
AffectedRangeOf(rr, ts) ==
  LET from == IF rr.to.dir = "Before"
              THEN CheckedAdd(ts, rr.to.n)
              ELSE Some(SaturatingSub(ts, rr.to.n))
      to == IF rr.from.dir = "Before"
            THEN Some(SaturatingAdd(ts, rr.from.n))
            ELSE CheckedSub(ts, rr.from.n)
  IN IF IsSome(from) /\ IsSome(to) THEN Some(Range(Get(from), Get(to))) ELSE None

\* Signed value of a relative offset.
OffsetValue(off) == IF off.dir = "Before" THEN 0 - off.n ELSE off.n

\* RelOffset subtraction, as used for range.from - range.to.
OffsetSub(a, b) ==
  LET d == OffsetValue(a) - OffsetValue(b)
  IN IF d <= 0 THEN Before(0 - d) ELSE After(d)

\* ------------------------------------------------------------ Ranges

Max2(a, b) == IF a >= b THEN a ELSE b

\* Ranges::push_monotonic: extend the last range when the new one overlaps it.
PushMonotonic(rs, r) ==
  IF Len(rs) > 0 /\ rs[Len(rs)].to >= r.from
  THEN [rs EXCEPT ![Len(rs)] = Range(rs[Len(rs)].from, Max2(rs[Len(rs)].to, r.to))]
  ELSE Append(rs, r)

\* Ranges::merge: merge two sorted range lists into one sorted disjoint list.
RECURSIVE MergeFrom(_, _, _)
MergeFrom(a, b, acc) ==
  IF Len(a) = 0 /\ Len(b) = 0 THEN acc
  ELSE IF Len(b) = 0 \/ (Len(a) > 0 /\ a[1].from <= b[1].from)
       THEN MergeFrom(Tail(a), b, PushMonotonic(acc, a[1]))
       ELSE MergeFrom(a, Tail(b), PushMonotonic(acc, b[1]))

Merge(a, b) == MergeFrom(a, b, << >>)

InRanges(ts, rs) == \E i \in 1 .. Len(rs) : rs[i].from <= ts /\ ts <= rs[i].to

\* The keys of a cursor come in ascending order.
RECURSIVE SortedSeq(_)
SortedSeq(S) ==
  IF S = {} THEN << >>
  ELSE LET m == CHOOSE x \in S : \A y \in S : x <= y
       IN << m >> \o SortedSeq(S \ {m})

\* ------------------------------------------------------------ Z-sets

\* An input Z-set maps every (partition, ts, payload) to its weight, 0 when
\* absent.  An output Z-set is the set of its (row, weight) pairs of
\* non-zero weight, a row being (partition, ts, Option<aggregate>).
ZeroIn == [r \in InRecs |-> 0]
InAdd(a, b) == [r \in InRecs |-> a[r] + b[r]]
InSupport(z) == {r \in InRecs : z[r] # 0}

EmptyZ == {}
Rows(z) == {e[1] : e \in z}
ZWeight(z, k) ==
  LET m == {e \in z : e[1] = k}
  IN IF m = {} THEN 0 ELSE (CHOOSE e \in m : TRUE)[2]
ZAdd(a, b) ==
  {e \in {<<k, ZWeight(a, k) + ZWeight(b, k)>> : k \in Rows(a) \cup Rows(b)} : e[2] # 0}

\* Cursor over the payloads of one (partition, ts) of a trace: (payload,
\* weight) pairs in ascending payload order.
ValCursor(z, pk, ts) ==
  LET vs == SortedSeq({v \in Vals : z[<<pk, ts, v>>] # 0})
  IN [i \in 1 .. Len(vs) |-> <<vs[i], z[<<pk, ts, vs[i]>>]>>]

\* Timestamps of a partition that a cursor over the trace visits.
TraceTimes(z, pk) == {ts \in TSs : \E v \in Vals : z[<<pk, ts, v>>] # 0}

\* ------------------------------------------------------------ aggregators

\* LinearAggregator::aggregate with f the identity: the sum of f(v) * w over
\* the cursor, None on an empty cursor.
RECURSIVE LinearFrom(_, _)
LinearFrom(cur, res) ==
  IF Len(cur) = 0 THEN res
  ELSE LET new == cur[1][1] * cur[1][2]
       IN LinearFrom(Tail(cur), IF res = None THEN Some(new) ELSE Some(Get(res) + new))

RECURSIVE LinearFromUnweighted(_, _)
LinearFromUnweighted(cur, res) ==
  IF Len(cur) = 0 THEN res
  ELSE LinearFromUnweighted(Tail(cur),
                            IF res = None THEN Some(cur[1][1]) ELSE Some(Get(res) + cur[1][1]))

LinearAggregate_IgnoreWeight(cur) == LinearFromUnweighted(cur, None)

LinearAggregate(cur) == LinearFrom(cur, None)

RECURSIVE FoldFrom_Unweighted(_, _)
FoldFrom_Unweighted(cur, acc) ==
  IF Len(cur) = 0 THEN acc
  ELSE FoldFrom_Unweighted(Tail(cur), acc + cur[1][1])

\* Fold aggregator of the test circuit: init 0, step agg += val * w.
RECURSIVE FoldFrom(_, _)
FoldFrom(cur, acc) ==
  IF Len(cur) = 0 THEN acc
  ELSE FoldFrom(Tail(cur), acc + cur[1][1] * cur[1][2])

FoldAggregate(cur) == IF Len(cur) = 0 THEN None ELSE Some(FoldFrom(cur, 0))

Aggregate(kind, cur) == IF kind = "linear" THEN LinearAggregate(cur) ELSE FoldAggregate(cur)

\* finalize: both aggregators of the circuit project with the identity.
Finalize(kind, acc) == acc

\* ------------------------------------------------------------ radix tree

\* Leaves of the partitioned radix tree over a trace: for every populated
\* timestamp of a partition its accumulator.
Tree(z, kind) ==
  [pk \in PKs |-> [ts \in TraceTimes(z, pk) |-> Get(Aggregate(kind, ValCursor(z, pk, ts)))]]

\* aggregate_range: semigroup combination of the leaves in [from, to], None
\* when no leaf lies in the range.
RECURSIVE CombineLeaves(_, _, _)
CombineLeaves(leaves, tss, acc) ==
  IF Len(tss) = 0 THEN acc
  ELSE CombineLeaves(leaves, Tail(tss),
                     IF acc = None THEN Some(leaves[tss[1]])
                     ELSE Some(Get(acc) + leaves[tss[1]]))

AggregateRange(leaves, r) ==
  CombineLeaves(leaves, SortedSeq({ts \in DOMAIN leaves : r.from <= ts /\ ts <= r.to}), None)

\* ------------------------------------------------------------ the operator

RECURSIVE AffectedPush(_, _, _)
AffectedPush(rr, tss, acc) ==
  IF Len(tss) = 0 THEN acc
  ELSE LET r == AffectedRangeOf(rr, tss[1])
       IN AffectedPush(rr, Tail(tss), IF IsSome(r) THEN PushMonotonic(acc, Get(r)) ELSE acc)

RECURSIVE DeltaPush(_, _)
DeltaPush(tss, acc) ==
  IF Len(tss) = 0 THEN acc
  ELSE DeltaPush(Tail(tss), PushMonotonic(acc, Range(tss[1], tss[1])))

AffectedRanges_NoDelta(rr, tss) == AffectedPush(rr, SortedSeq(tss), << >>)

AffectedRanges_Concat(rr, tss) ==
  LET seq == SortedSeq(tss)
  IN AffectedPush(rr, seq, << >>) \o DeltaPush(seq, << >>)

\* PartitionedRollingAggregate::affected_ranges over the timestamps of one
\* partition of the delta, visited in ascending order.
AffectedRanges(rr, tss) ==
  LET seq == SortedSeq(tss)
  IN Merge(AffectedPush(rr, seq, << >>), DeltaPush(seq, << >>))

\* Partitions and timestamps the delta cursor visits.
DeltaKeys(delta) == {r[1] : r \in InSupport(delta)}
DeltaTimes(delta, pk) == {r[2] : r \in {x \in InSupport(delta) : x[1] = pk}}

Retractions_NotNegated(delta, outTrace, rr) ==
  UNION {LET rs == AffectedRanges(rr, DeltaTimes(delta, pk))
         IN {e \in outTrace : e[1][1] = pk /\ InRanges(e[1][2], rs) /\ e[2] # 0} :
         pk \in DeltaKeys(delta)}

Retractions_WholePartition(delta, outTrace, rr) ==
  UNION {{<<e[1], 0 - e[2]>> : e \in {x \in outTrace : x[1][1] = pk /\ x[2] # 0}} :
         pk \in DeltaKeys(delta)}

\* "Clear old outputs": the retraction builder.
Retractions(delta, outTrace, rr) ==
  UNION {LET rs == AffectedRanges(rr, DeltaTimes(delta, pk))
         IN {<<e[1], 0 - e[2]>> :
               e \in {x \in outTrace :
                        x[1][1] = pk /\ InRanges(x[1][2], rs) /\ x[2] # 0}} :
         pk \in DeltaKeys(delta)}

InsertionTimes_AnyWeight(delta, inTrace, rr, pk) ==
  LET rs == AffectedRanges(rr, DeltaTimes(delta, pk))
  IN {ts \in TraceTimes(inTrace, pk) : InRanges(ts, rs) /\ IsSome(RangeOf(rr, ts))}

InsertionTimes_StopAtNone(delta, inTrace, rr, pk) ==
  LET rs == AffectedRanges(rr, DeltaTimes(delta, pk))
      visited == {ts \in TraceTimes(inTrace, pk) : InRanges(ts, rs)}
  IN {ts \in visited :
        /\ \A t \in visited : t <= ts => IsSome(RangeOf(rr, t))
        /\ \E v \in Vals : ~(inTrace[<<pk, ts, v>>] <= 0)}

\* "Compute new outputs": the insertion builder.  A row is pushed for an
\* affected timestamp of the input trace when range_of is defined and some
\* payload has a weight that is not <= 0.
InsertionTimes(delta, inTrace, rr, pk) ==
  LET rs == AffectedRanges(rr, DeltaTimes(delta, pk))
  IN {ts \in TraceTimes(inTrace, pk) :
        /\ InRanges(ts, rs)
        /\ IsSome(RangeOf(rr, ts))
        /\ \E v \in Vals : ~(inTrace[<<pk, ts, v>>] <= 0)}

OutputAgg_WholePartition(tree, rr, kind, pk, ts) ==
  LET acc == AggregateRange(tree[pk], Range(0, MaxTS))
  IN IF IsSome(acc) THEN Some(Finalize(kind, Get(acc))) ELSE None

\* The aggregate pushed for (pk, ts): aggregate_range over range_of(ts),
\* finalized.
OutputAgg(tree, rr, kind, pk, ts) ==
  LET acc == AggregateRange(tree[pk], Get(RangeOf(rr, ts)))
  IN IF IsSome(acc) THEN Some(Finalize(kind, Get(acc))) ELSE None

Insertions_PayloadWeight(delta, inTrace, tree, rr, kind) ==
  UNION {{<<<<pk, ts, OutputAgg(tree, rr, kind, pk, ts)>>,
            inTrace[<<pk, ts, CHOOSE v \in Vals :
                                /\ inTrace[<<pk, ts, v>>] > 0
                                /\ \A u \in Vals : inTrace[<<pk, ts, u>>] > 0 => v <= u>>]>> :
            ts \in InsertionTimes(delta, inTrace, rr, pk)} :
         pk \in DeltaKeys(delta)}

Insertions_OmitNone(delta, inTrace, tree, rr, kind) ==
  UNION {{<<<<pk, ts, OutputAgg(tree, rr, kind, pk, ts)>>, 1>> :
            ts \in {t \in InsertionTimes(delta, inTrace, rr, pk) :
                      IsSome(OutputAgg(tree, rr, kind, pk, t))}} :
         pk \in DeltaKeys(delta)}

Insertions(delta, inTrace, tree, rr, kind) ==
  UNION {{<<<<pk, ts, OutputAgg(tree, rr, kind, pk, ts)>>, 1>> :
            ts \in InsertionTimes(delta, inTrace, rr, pk)} :
         pk \in DeltaKeys(delta)}

Eval_InsertOnly(delta, inTrace, tree, outTrace, rr, kind) ==
  LET retr == Retractions(delta, outTrace, rr)
      ins == Insertions(delta, inTrace, tree, rr, kind)
  IN [retractions |-> retr, insertions |-> ins, output |-> ins]

Eval_Concat(delta, inTrace, tree, outTrace, rr, kind) ==
  LET retr == Retractions(delta, outTrace, rr)
      ins == Insertions(delta, inTrace, tree, rr, kind)
  IN [retractions |-> retr, insertions |-> ins, output |-> retr \cup ins]

Eval_RetractWhenPresent(delta, inTrace, tree, outTrace, rr, kind) ==
  LET present == [r \in InRecs |-> IF TraceTimes(inTrace, r[1]) # {} THEN delta[r] ELSE 0]
      retr == Retractions(present, outTrace, rr)
      ins == Insertions(delta, inTrace, tree, rr, kind)
  IN [retractions |-> retr, insertions |-> ins, output |-> ZAdd(retr, ins)]

\* PartitionedRollingAggregate::eval.
Eval(delta, inTrace, tree, outTrace, rr, kind) ==
  LET retr == Retractions(delta, outTrace, rr)
      ins == Insertions(delta, inTrace, tree, rr, kind)
  IN [retractions |-> retr, insertions |-> ins, output |-> ZAdd(retr, ins)]

\* ------------------------------------------------------------ reference

\* aggregate_range_slow: scan of the partition's records in [from, to].
RECURSIVE SlowScan(_, _, _, _)
SlowScan(batch, pk, tss, agg) ==
  IF Len(tss) = 0 THEN agg
  ELSE SlowScan(batch, pk, Tail(tss), LinearFrom(ValCursor(batch, pk, tss[1]), agg))

AggregateRangeSlow(batch, pk, r) ==
  SlowScan(batch, pk, SortedSeq({ts \in TraceTimes(batch, pk) : r.from <= ts /\ ts <= r.to}), None)

\* partitioned_rolling_aggregate_slow: one row of weight 1 (after distinct)
\* for every record of the integrated input whose range_of is defined.
Reference(batch, rr) ==
  {<<<<r[1], r[2], AggregateRangeSlow(batch, r[1], Get(RangeOf(rr, r[2])))>>, 1>> :
     r \in {x \in InSupport(batch) : IsSome(RangeOf(rr, x[2]))}}

\* ------------------------------------------------------------ trace bounds

\* Order of the values (TS, Option<aggregate>) of the output trace.
ValLess(a, b) == a[1] < b[1] \/ (a[1] = b[1] /\ OptLess(a[2], b[2]))

\* Order of Option<(TS, Option<aggregate>)>, the content of a TraceBound.
BoundLess(a, b) ==
  IF a = None THEN b # None
  ELSE IF b = None THEN FALSE
  ELSE ValLess(Get(a), Get(b))

Unbounded == [unbounded |-> TRUE, cells |-> << >>]
Bounded(cells) == [unbounded |-> FALSE, cells |-> cells]

EffectiveBound_SkipUnset(bounds) ==
  LET set == {i \in 1 .. Len(bounds.cells) : IsSome(bounds.cells[i])}
  IN IF bounds.unbounded \/ set = {} THEN None
     ELSE bounds.cells[CHOOSE i \in set : \A j \in set : ~BoundLess(bounds.cells[j], bounds.cells[i])]

\* TraceBounds::effective_bound: None when unbounded, else the least of the
\* registered bounds, an unset bound being below every set one.
EffectiveBound(bounds) ==
  IF bounds.unbounded THEN None
  ELSE LET i == CHOOSE i \in 1 .. Len(bounds.cells) :
                  \A j \in 1 .. Len(bounds.cells) : ~BoundLess(bounds.cells[j], bounds.cells[i])
       IN bounds.cells[i]

\* Truncation of the output trace below a bound on its values.
TruncateBelow(trace, b) ==
  {e \in trace : ~ValLess(<<e[1][2], e[1][3]>>, b)}

Z1EvalStrictOwned_NoTruncate(i, remembered, effective) ==
  [trace |-> i, effective_bound |-> effective, calls |-> << >>]

Z1EvalStrictOwned_TruncateAlways(i, remembered, effective) ==
  [trace |-> IF IsSome(effective) THEN TruncateBelow(i, Get(effective)) ELSE i,
   effective_bound |-> effective,
   calls |-> IF IsSome(effective) THEN <<Get(effective)>> ELSE << >>]

\* Z1Trace::eval_strict_owned: truncate when the effective bound differs
\* from the remembered one and is set; remember the bound; keep the trace.
\* calls lists the arguments of the truncate_keys_below calls made.
Z1EvalStrictOwned(i, remembered, effective) ==
  [trace |-> IF effective # remembered /\ IsSome(effective)
             THEN TruncateBelow(i, Get(effective))
             ELSE i,
   effective_bound |-> effective,
   calls |-> IF effective # remembered /\ IsSome(effective)
             THEN <<Get(effective)>>
             ELSE << >>]

TraceAppend_DropBatch(trace, batch) == trace

\* UntimedTraceAppend::eval_owned.
TraceAppend(trace, batch) == ZAdd(trace, batch)

\* ------------------------------------------------------------ watermark wrapper

LowerBound_Unshifted(rr, wm) ==
  LET r == RangeOf(rr, wm)
  IN IF IsSome(r) THEN Get(r).from ELSE 0

LowerBound_Unclamped(rr, wm) == wm - (OffsetValue(rr.to) - OffsetValue(rr.from))

LowerBound_Wrapping(rr, wm) ==
  (wm - (OffsetValue(rr.to) - OffsetValue(rr.from))) % (MaxTS + 1)

\* lb = watermark - (range.to - range.from), TS::min when it underflows.
LowerBound(rr, wm) ==
  LET shifted == RelRange(OffsetSub(rr.from, rr.to), Before(0))
      r == RangeOf(shifted, wm)
  IN IF IsSome(r) THEN Get(r).from ELSE 0

\* Output delta of the window operator over [lb, +inf): records that left
\* the window are retracted, records of the delta inside it are added.
WindowDelta(window, delta, lb) ==
  [r \in InRecs |-> IF r[2] >= lb THEN delta[r] ELSE 0 - window[r]]

\* ------------------------------------------------------------ state

VARIABLES
  range,      \* RelRange the operator was built with
  variant,    \* "fold", "linear" or "watermark": which constructor built the circuit
  tick,       \* number of clock ticks completed
  delta,      \* input delta of the last tick
  input,      \* integral of the input stream
  window,     \* integral of the stream feeding the input trace and the radix tree
  watermark,  \* watermark of the last tick
  bound,      \* TraceBound registered on the values of the output trace
  z1trace,    \* Z1Trace.trace: the fed-back output trace
  z1bound,    \* Z1Trace.effective_bound
  retracted,  \* retraction builder of the last tick
  inserted,   \* insertion builder of the last tick
  outDelta,   \* output delta of the last tick
  output,     \* integral of the output deltas
  ontime,     \* history: integral of the records that arrived at or above lb
  midLate,    \* history: some record arrived below the watermark but not below lb
  lowLate     \* history: some record arrived below lb

vars == <<range, variant, tick, delta, input, window, watermark, bound, z1trace,
          z1bound, retracted, inserted, outDelta, output, ontime, midLate, lowLate>>

\* State of the calls of advance / advance_erased (trace/layers/advance.rs).
VARIABLES
  haystack,   \* the typed slice, sorted
  needle,     \* the predicate is x < needle
  elemSize,   \* size in bytes of an element of the byte image
  count,      \* Option: result of advance
  erased      \* Option: result of advance_erased and the pointers it probed

advVars == <<haystack, needle, elemSize, count, erased>>

\* No call of advance is in progress.
AdvanceIdle ==
  /\ haystack = << >>
  /\ needle = 0
  /\ elemSize = 1
  /\ count = None
  /\ erased = None

\* The rolling-aggregate circuit is not built.
RollingIdle ==
  /\ range = RelRange(Before(0), Before(0))
  /\ variant = "idle"
  /\ tick = 0
  /\ delta = ZeroIn
  /\ input = ZeroIn
  /\ window = ZeroIn
  /\ watermark = 0
  /\ bound = None
  /\ z1trace = EmptyZ
  /\ z1bound = None
  /\ retracted = EmptyZ
  /\ inserted = EmptyZ
  /\ outDelta = EmptyZ
  /\ output = EmptyZ
  /\ ontime = ZeroIn
  /\ midLate = FALSE
  /\ lowLate = FALSE

\* State of the trace-bound protocol of one circuit (operator/trace.rs):
\* heaps of the shared cells, the circuit cache and the Z1Trace operators.
VARIABLES
  tbCells,    \* heap of TraceBound cells: Option<bound>, a handle is an index
  tbBounds,   \* heap of TraceBounds collections, a handle is an index
  tbZ1,       \* the Z1Trace operators of the circuit, a trace stream is an index
  tbCache,    \* circuit cache: producing node -> Option<(trace stream, bounds)>
  tbTick,     \* number of clock ticks evaluated
  tbIntegral, \* every batch appended so far, summed
  tbHist      \* per node: calls with Some(bound), calls with None, calls with
              \* Some(bound) that found the collection unbounded, streams returned

tbVars == <<tbCells, tbBounds, tbZ1, tbCache, tbTick, tbIntegral, tbHist>>

\* Producing streams of the circuit, by node id.
Nodes == {1, 2}

\* No trace has been requested.
BoundsIdle ==
  /\ tbCells = << >>
  /\ tbBounds = << >>
  /\ tbZ1 = << >>
  /\ tbCache = [n \in Nodes |-> None]
  /\ tbTick = 0
  /\ tbIntegral = EmptyZ
  /\ tbHist = [n \in Nodes |-> [some |-> 0, none |-> 0, ignored |-> 0, returned |-> {}]]

\* State of one trace kept by an append operator and a Z1Trace whose inputs
\* the scheduler hands over by value or by reference (operator/trace.rs).
VARIABLES
  owOp,       \* the append operator: "UntimedTraceAppend" or "TraceAppend"
  owTrace,    \* the trace stored in the Z1Trace
  owExpected, \* the sum of the batches of the ticks so far
  owTick,     \* number of clock ticks started
  owHanded,   \* the eval variants the scheduler called at the last tick
  owPanicked  \* an operator panicked

owVars == <<owOp, owTrace, owExpected, owTick, owHanded, owPanicked>>

\* No such circuit is built.
OwnershipIdle ==
  /\ owOp = "idle"
  /\ owTrace = EmptyZ
  /\ owExpected = EmptyZ
  /\ owTick = 0
  /\ owHanded = << >>
  /\ owPanicked = FALSE

\* State of the partitioned radix tree over the integrated input
\* (partitioned_tree_aggregate(..).integrate_trace()).
VARIABLES
  rxKind,     \* the aggregator: "fold" or "linear"
  rxTrace,    \* the integrated input
  rxTree,     \* the integrated tree: set of <<<<pk, depth, prefix>>, accumulator>>
  rxTick,     \* number of clock ticks evaluated
  rxEmptied   \* nodes the last tick removed from the tree

rxVars == <<rxKind, rxTrace, rxTree, rxTick, rxEmptied>>

\* No tree is built.
RadixIdle ==
  /\ rxKind = "idle"
  /\ rxTrace = ZeroIn
  /\ rxTree = {}
  /\ rxTick = 0
  /\ rxEmptied = {}

\* State of one NexmarkGenerator and of the calls made on it
\* (nexmark/generator/mod.rs).
VARIABLES
  nxGen,      \* the generator: config, rng, events_count_so_far, wallclock_base_time
  nxCalls,    \* number of next_event calls made
  nxEmitted,  \* the events returned so far, in order
  nxResult,   \* Option: the value returned by the last call
  nxHasNext   \* Option: has_next() as last observed

nxVars == <<nxGen, nxCalls, nxEmitted, nxResult, nxHasNext>>

\* No generator is made.
NexmarkIdle ==
  /\ nxGen = << >>
  /\ nxCalls = 0
  /\ nxEmitted = << >>
  /\ nxResult = None
  /\ nxHasNext = None

\* State of one run of the dataflow-jit entry point (dataflow-jit/src/main.rs).
VARIABLES
  cliFile,    \* the file argument: "-" or a path
  cliFaults,  \* the steps that fail for this input and environment
  cliPc,      \* the step main is about to take
  cliRan,     \* the steps taken so far, in order
  cliExit     \* Option: the exit code of the process

cliVars == <<cliFile, cliFaults, cliPc, cliRan, cliExit>>

\* The entry point is not running.
CliIdle ==
  /\ cliFile = "-"
  /\ cliFaults = {}
  /\ cliPc = "idle"
  /\ cliRan = << >>
  /\ cliExit = None

\* State of one Z1Trace operator driven call by call (trace.rs, Z1Trace).
VARIABLES
  ztRoot,     \* root_scope the operator was built with
  ztReset,    \* reset_on_clock_start
  ztTime,     \* Z1Trace.time: a counter per nesting level
  ztSlot,     \* Z1Trace.trace: Option of [z, dirty]
  ztHeld,     \* Option: the trace get_output moved out, held by the circuit
  ztDirty,    \* Z1Trace.dirty, indexed by scope (from 0)
  ztPanicked, \* a call panicked
  ztHist      \* what the calls so far did

ztVars == <<ztRoot, ztReset, ztTime, ztSlot, ztHeld, ztDirty, ztPanicked, ztHist>>

\* No Z1Trace has been built.
Z1OpIdle ==
  /\ ztRoot = 0
  /\ ztReset = FALSE
  /\ ztTime = << >>
  /\ ztSlot = None
  /\ ztHeld = None
  /\ ztDirty = << >>
  /\ ztPanicked = FALSE
  /\ ztHist = << >>

auxVars == <<advVars, tbVars, owVars, rxVars, nxVars, cliVars, ztVars>>

AuxIdle == AdvanceIdle /\ BoundsIdle /\ OwnershipIdle /\ RadixIdle /\ NexmarkIdle /\ CliIdle /\ Z1OpIdle

\* Every family of variables but f is idle.
IdleExcept(f) ==
  /\ IF f = "rolling" THEN TRUE ELSE RollingIdle
  /\ IF f = "advance" THEN TRUE ELSE AdvanceIdle
  /\ IF f = "bounds" THEN TRUE ELSE BoundsIdle
  /\ IF f = "ownership" THEN TRUE ELSE OwnershipIdle
  /\ IF f = "radix" THEN TRUE ELSE RadixIdle
  /\ IF f = "nexmark" THEN TRUE ELSE NexmarkIdle
  /\ IF f = "cli" THEN TRUE ELSE CliIdle
  /\ IF f = "z1op" THEN TRUE ELSE Z1OpIdle

\* What the actions of each family leave alone.
advOthers == <<vars, tbVars, owVars, rxVars, nxVars, cliVars, ztVars>>
tbOthers == <<vars, advVars, owVars, rxVars, nxVars, cliVars, ztVars>>
owOthers == <<vars, advVars, tbVars, rxVars, nxVars, cliVars, ztVars>>
rxOthers == <<vars, advVars, tbVars, owVars, nxVars, cliVars, ztVars>>
nxOthers == <<vars, advVars, tbVars, owVars, rxVars, cliVars, ztVars>>
cliOthers == <<vars, advVars, tbVars, owVars, rxVars, nxVars, ztVars>>
ztOthers == <<vars, advVars, tbVars, owVars, rxVars, nxVars, cliVars>>

\* Window shapes of the test circuit, scaled to the model's timestamps:
\* Before(1000)..Before(0), Before(500)..After(500), Before(500)..Before(100).
TestShapes ==
  {RelRange(Before(2), Before(0)), RelRange(Before(1), After(1)),
   RelRange(Before(2), Before(1))}

\* The single-point window.
PointRange == RelRange(Before(0), Before(0))

Kind == IF variant = "linear" THEN "linear" ELSE "fold"

\* Input batches of the plain circuits: empty, one inserted record, one
\* deleted record of partition 0, two records of partition 0 or the same
\* record in both partitions.
Single(r, w) == [x \in InRecs |-> IF x = r THEN w ELSE 0]
Pairs ==
  {InAdd(Single(<<0, p[1], 1>>, 1), Single(<<0, p[2], 1>>, 1)) :
     p \in {q \in TSs \X TSs : q[1] < q[2]}}
Batches ==
  {ZeroIn}
  \cup {Single(r, 1) : r \in InRecs}
  \cup {Single(r, -1) : r \in {x \in InRecs : x[1] = 0}}
  \cup Pairs
  \cup {InAdd(Single(<<0, 0, 1>>, 1), Single(<<1, 0, 1>>, 1))}

\* Input batches and watermarks of the watermarked circuit.
WBatches ==
  {ZeroIn}
  \cup {Single(<<0, ts, 1>>, 1) : ts \in TSs}
  \cup {Single(<<0, 1, 2>>, 1), Single(<<1, 0, 1>>, 1)}
  \cup {Single(<<0, ts, 1>>, -1) : ts \in {0, 1}}
  \cup Pairs
Watermarks == TSs \ {1}

InitCircuit ==
  /\ tick = 0
  /\ delta = ZeroIn
  /\ input = ZeroIn
  /\ window = ZeroIn
  /\ watermark = 0
  /\ bound = None
  /\ z1trace = EmptyZ
  /\ z1bound = None
  /\ retracted = EmptyZ
  /\ inserted = EmptyZ
  /\ outDelta = EmptyZ
  /\ output = EmptyZ
  /\ ontime = ZeroIn
  /\ midLate = FALSE
  /\ lowLate = FALSE
  /\ AuxIdle

\* partitioned_rolling_aggregate with the Fold aggregator.
Init ==
  /\ range \in TestShapes \cup {PointRange}
  /\ variant = "fold"
  /\ InitCircuit

\* partitioned_rolling_aggregate_linear, on the ranges the test circuit uses.
InitLinear ==
  /\ range \in {RelRange(Before(2), Before(0)), RelRange(Before(1), After(1))}
  /\ variant = "linear"
  /\ InitCircuit

\* partitioned_rolling_aggregate_with_watermark.
InitWatermark ==
  /\ range \in TestShapes
  /\ variant = "watermark"
  /\ InitCircuit

Inner_BoundAtSome(d, win, bnd) ==
  LET ev == Eval(d, win, Tree(win, Kind), z1trace, range, Kind)
      val == IF IsSome(bnd) THEN Some(<<Get(bnd)[1], Some(0)>>) ELSE bnd
      z1 == Z1EvalStrictOwned(TraceAppend(z1trace, ev.output), z1bound,
                              EffectiveBound(Bounded(<<val>>)))
  IN /\ retracted' = ev.retractions
     /\ inserted' = ev.insertions
     /\ outDelta' = ev.output
     /\ output' = ZAdd(output, ev.output)
     /\ z1trace' = z1.trace
     /\ z1bound' = z1.effective_bound

\* The part of a tick that partitioned_rolling_aggregate_inner wires: the
\* operator reads the delta, the input trace and tree of this tick and the
\* output trace of the previous tick; its output is appended to the output
\* trace, which the Z^-1 operator stores after truncating it.
Inner(d, win, bnd) ==
  LET ev == Eval(d, win, Tree(win, Kind), z1trace, range, Kind)
      z1 == Z1EvalStrictOwned(TraceAppend(z1trace, ev.output), z1bound,
                              EffectiveBound(Bounded(<<bnd>>)))
  IN /\ retracted' = ev.retractions
     /\ inserted' = ev.insertions
     /\ outDelta' = ev.output
     /\ output' = ZAdd(output, ev.output)
     /\ z1trace' = z1.trace
     /\ z1bound' = z1.effective_bound

StepPlain_SetBound(d) ==
  /\ variant # "watermark"
  /\ tick < MaxTicks
  /\ \A r \in InRecs : input[r] + d[r] \in IntWeights
  /\ tick' = tick + 1
  /\ delta' = d
  /\ input' = InAdd(input, d)
  /\ window' = InAdd(window, d)
  /\ ontime' = InAdd(ontime, d)
  /\ Inner(d, InAdd(window, d), Some(<<tick + 1, None>>))
  /\ UNCHANGED <<range, variant, watermark, bound, midLate, lowLate, auxVars>>

\* A tick of partitioned_rolling_aggregate / _linear: the window is the
\* stream itself and the bound is never set.
StepPlain(d) ==
  /\ variant # "watermark"
  /\ tick < MaxTicks
  /\ \A r \in InRecs : input[r] + d[r] \in IntWeights
  /\ tick' = tick + 1
  /\ delta' = d
  /\ input' = InAdd(input, d)
  /\ window' = InAdd(window, d)
  /\ ontime' = InAdd(ontime, d)
  /\ Inner(d, InAdd(window, d), bound)
  /\ UNCHANGED <<range, variant, watermark, bound, midLate, lowLate, auxVars>>

\* A tick of partitioned_rolling_aggregate_with_watermark: the wrapper sets
\* the bound and windows the input from the watermark of the tick.
StepWatermark(d, wm) ==
  /\ variant = "watermark"
  /\ tick < MaxTicks
  /\ wm >= watermark
  /\ \A r \in InRecs : input[r] + d[r] \in IntWeights
  /\ tick' = tick + 1
  /\ delta' = d
  /\ input' = InAdd(input, d)
  /\ watermark' = wm
  /\ bound' = Some(<<LowerBound(range, wm), None>>)
  /\ window' = InAdd(window, WindowDelta(window, d, LowerBound(range, wm)))
  /\ ontime' = [r \in InRecs |-> IF r[2] >= LowerBound(range, wm)
                                  THEN ontime[r] + d[r] ELSE ontime[r]]
  /\ midLate' = (midLate \/ \E r \in InSupport(d) : LowerBound(range, wm) <= r[2] /\ r[2] < wm)
  /\ lowLate' = (lowLate \/ \E r \in InSupport(d) : r[2] < LowerBound(range, wm))
  /\ Inner(d, InAdd(window, WindowDelta(window, d, LowerBound(range, wm))),
           Some(<<LowerBound(range, wm), None>>))
  /\ UNCHANGED <<range, variant, auxVars>>

Next == \E d \in Batches : StepPlain(d)

NextWatermark == \E d \in WBatches, wm \in Watermarks : StepWatermark(d, wm)

Spec == Init /\ [][Next]_vars

SpecLinear == InitLinear /\ [][Next]_vars

SpecWatermark == InitWatermark /\ [][NextWatermark]_vars

\* ------------------------------------------------------------ properties

\* Some payload of (pk, ts) has a positive weight in z.
HasPositive(z, pk, ts) == \E v \in Vals : z[<<pk, ts, v>>] > 0

NonNegative(z) == \A r \in InRecs : z[r] >= 0

\* The rows the integrated output is expected to hold over the integrated
\* input: one row of weight 1 for every (PK, TS) that has a positively
\* weighted payload and a defined window, with the aggregate of all records
\* of the partition in the window.
ExpectedRows(batch, rr) ==
  {<<<<p[1], p[2], AggregateRangeSlow(batch, p[1], Get(RangeOf(rr, p[2])))>>, 1>> :
     p \in {q \in PKs \X TSs : HasPositive(batch, q[1], q[2]) /\ IsSome(RangeOf(rr, q[2]))}}

\* lb = w - (range.to - range.from), clamped at the least timestamp.
ClaimLb == Max2(0, watermark - (OffsetValue(range.to) - OffsetValue(range.from)))

\* C1 as stated: after every tick the integrated output of
\* partitioned_rolling_aggregate equals the reference applied to the
\* integrated input, whatever the signs of the weights.
C1_FaithfulAnyWeights == output = Reference(input, range)

\* C1 amended: after every tick the integrated output holds exactly one row
\* of weight 1 for every (PK, TS) of the integrated input that has a
\* positively weighted payload and a defined range_of(TS), carrying the
\* aggregate of all records of the partition in range_of(TS).
C1_FaithfulPositive == output = ExpectedRows(input, range)

C1_Witness ==
  /\ tick = 2
  /\ \E r \in InRecs : input[r] < 0
  /\ retracted # EmptyZ
  /\ inserted # EmptyZ
  /\ output # EmptyZ

NoLateRecord == ~midLate /\ ~lowLate

\* C2: in the watermark variant, when no record arrives below the watermark
\* of its tick, the integrated output equals after every tick the reference
\* on the full integrated input, for every range shape.
C2_WatermarkEquivalence ==
  (NoLateRecord /\ NonNegative(input)) => output = Reference(input, range)

\* C3: in the watermark variant, after the Z^-1 update that ends a tick the
\* fed-back output trace holds no row with a timestamp below lb.
C3_TraceBounded == \A e \in z1trace : e[1][2] >= ClaimLb

C3_Witness ==
  /\ ClaimLb > 0
  /\ \E e \in output : e[1][2] < ClaimLb
  /\ z1trace # EmptyZ

\* The window of ts contains T.
InWindow(T, ts) ==
  /\ IsSome(RangeOf(range, ts))
  /\ Get(RangeOf(range, ts)).from <= T
  /\ T <= Get(RangeOf(range, ts)).to

\* C4: in the watermark variant the input trace and the radix tree integrate
\* the input restricted to [lb, +inf), while the un-windowed delta selects
\* what is recomputed: every record of the delta, also one below lb, has the
\* populated timestamps whose window contains it recomputed.
C4_InputWindowed ==
  /\ window = [r \in InRecs |-> IF r[2] >= ClaimLb THEN input[r] ELSE 0]
  /\ \A r \in InSupport(delta), ts \in TSs :
       (HasPositive(window, r[1], ts) /\ (ts = r[2] \/ InWindow(r[2], ts))
          /\ IsSome(RangeOf(range, ts)))
         => \E e \in inserted : e[1][1] = r[1] /\ e[1][2] = ts

C4_Witness ==
  /\ \E r \in InSupport(delta) : r[2] < ClaimLb
  /\ \E r \in InRecs : input[r] # 0 /\ window[r] = 0
  /\ inserted # EmptyZ

\* Range shapes whose window ends at or after the anchor.
EndsAtAnchor == range.to.dir = "After" \/ range.to.n = 0

\* The integrated output and input before the last tick.
Neg(z) == {<<e[1], 0 - e[2]>> : e \in z}
PrevOutput == ZAdd(output, Neg(outDelta))
PrevInput == [r \in InRecs |-> input[r] - delta[r]]

\* The aggregate of (pk, ts) over the integrated input.
Correct(pk, ts) == AggregateRangeSlow(input, pk, Get(RangeOf(range, ts)))

\* C5: in the watermark variant a record supplied below lb does not corrupt
\* the output: every row at a timestamp >= lb still carries the aggregate of
\* all on-time input in its window (a row that counts the late records of
\* its window as well is accepted too).
C5_LateInputHarmless ==
  (lowLate /\ ~midLate /\ NonNegative(input) /\ EndsAtAnchor) =>
    \A pk \in PKs, ts \in TSs :
      (ts >= ClaimLb /\ HasPositive(ontime, pk, ts) /\ IsSome(RangeOf(range, ts)))
        => \/ ZWeight(output, <<pk, ts, AggregateRangeSlow(ontime, pk, Get(RangeOf(range, ts)))>>) = 1
           \/ ZWeight(output, <<pk, ts, Correct(pk, ts)>>) = 1

\* C6: a previously emitted row (PK, TS, v) whose aggregate after the tick's
\* delta is v' # v is retracted with -1 and replaced with +1 at (PK, TS, v')
\* in the output delta of that tick; a newly inserted timestamp gets +1 at
\* its own aggregate.
C6_RetractionBalance ==
  /\ \A e \in PrevOutput :
       (HasPositive(input, e[1][1], e[1][2]) /\ Correct(e[1][1], e[1][2]) # e[1][3])
         => /\ ZWeight(outDelta, e[1]) = -1
            /\ ZWeight(outDelta, <<e[1][1], e[1][2], Correct(e[1][1], e[1][2])>>) = 1
  /\ \A pk \in PKs, ts \in TSs :
       (HasPositive(input, pk, ts) /\ ~HasPositive(PrevInput, pk, ts)
          /\ IsSome(RangeOf(range, ts)))
         => ZWeight(outDelta, <<pk, ts, Correct(pk, ts)>>) = 1

C6_Witness ==
  \E e \in PrevOutput, r \in InSupport(delta) :
    /\ r[1] = e[1][1]
    /\ r[2] < e[1][2]
    /\ delta[r] > 0
    /\ ~HasPositive(PrevInput, r[1], r[2])
    /\ HasPositive(input, e[1][1], e[1][2])
    /\ Correct(e[1][1], e[1][2]) # e[1][3]

\* The delta brought the weight of every payload at (pk, ts) to zero.
Emptied(pk, ts) ==
  /\ HasPositive(PrevInput, pk, ts)
  /\ \A v \in Vals : input[<<pk, ts, v>>] = 0

\* C7: when the delta empties (PK, TS), the output delta retracts the row of
\* (PK, TS) with -1 and emits no replacement; another timestamp of the
\* partition whose window contained the removed record gets a retraction of
\* its old row and an insertion with the updated aggregate; so too when the
\* partition becomes empty.
C7_RetractionToEmpty ==
  \A pk \in PKs, ts \in TSs :
    Emptied(pk, ts) =>
      /\ IsSome(RangeOf(range, ts)) =>
           \E e \in PrevOutput : e[1][1] = pk /\ e[1][2] = ts
      /\ \A e \in PrevOutput :
           (e[1][1] = pk /\ e[1][2] = ts) => ZWeight(outDelta, e[1]) = -1
      /\ \A e \in outDelta : (e[1][1] = pk /\ e[1][2] = ts) => e[2] < 0
      /\ \A ts2 \in TSs \ {ts} :
           (HasPositive(input, pk, ts2) /\ HasPositive(PrevInput, pk, ts2)
              /\ InWindow(ts, ts2))
             => /\ \E e \in PrevOutput :
                     e[1][1] = pk /\ e[1][2] = ts2 /\ ZWeight(retracted, e[1]) = -1
                /\ ZWeight(inserted, <<pk, ts2, Correct(pk, ts2)>>) = 1

C7_Witness ==
  \E pk \in PKs, ts \in TSs, ts2 \in TSs :
    /\ Emptied(pk, ts)
    /\ ts2 # ts
    /\ HasPositive(input, pk, ts2)
    /\ InWindow(ts, ts2)
    /\ ZWeight(outDelta, <<pk, ts2, Correct(pk, ts2)>>) = 1
    /\ \E e \in outDelta : e[1][1] = pk /\ e[1][2] = ts /\ e[2] = -1

\* C8: a change at T in partition PK causes recomputation at exactly the
\* populated timestamps TS' of PK with TS' in [T - to, T - from] or TS' = T
\* (for Before(a)..After(b): [T - b, T + a]), with the aggregate of the
\* integrated input, the record at T included.
C8_AffectedDual ==
  \A pk \in PKs :
    /\ {e[1][2] : e \in {x \in inserted : x[1][1] = pk}} =
         {ts \in TSs :
            /\ HasPositive(input, pk, ts)
            /\ IsSome(RangeOf(range, ts))
            /\ \E r \in InSupport(delta) :
                 /\ r[1] = pk
                 /\ \/ ts = r[2]
                    \/ /\ r[2] - OffsetValue(range.to) <= ts
                       /\ ts <= r[2] - OffsetValue(range.from)}
    /\ \A e \in inserted :
         e[1][1] = pk => (e[2] = 1 /\ e[1][3] = Correct(pk, e[1][2]))

C8_Witness ==
  /\ range = RelRange(Before(1), After(1))
  /\ \E r \in InSupport(delta), e1 \in inserted, e2 \in inserted :
       /\ e1[1][1] = r[1] /\ e1[1][2] = r[2] - 1
       /\ e2[1][1] = r[1] /\ e2[1][2] = r[2] + 1
       /\ \A q \in InSupport(delta) : q = r

\* Sum of v * w over the payloads of (pk, ts), None when there is none.
WeightedSum(z, pk, ts) ==
  LET sum[S \in SUBSET Vals] ==
        IF S = {} THEN 0
        ELSE LET v == CHOOSE x \in S : TRUE
             IN v * z[<<pk, ts, v>>] + sum[S \ {v}]
  IN IF \A v \in Vals : z[<<pk, ts, v>>] = 0 THEN None ELSE Some(sum[Vals])

\* LinearAggregator::aggregate is the weighted sum and agrees with the Fold
\* aggregator, on every cursor of the integrated input and in the rows pushed
\* in the last tick.
LinearIsWeightedSum ==
  /\ \A pk \in PKs, ts \in TSs :
       /\ LinearAggregate(ValCursor(input, pk, ts)) = WeightedSum(input, pk, ts)
       /\ LinearAggregate(ValCursor(input, pk, ts)) = FoldAggregate(ValCursor(input, pk, ts))
  /\ inserted = Insertions(delta, window, Tree(window, "fold"), range, "fold")

\* C9 as stated: after every tick of every input sequence the integrated
\* output of partitioned_rolling_aggregate_linear equals the reference and
\* the output with the Fold aggregator, LinearAggregator::aggregate being the
\* sum of f(v) * w and None on an empty cursor.
C9_LinearAnyWeights ==
  /\ LinearIsWeightedSum
  /\ output = Reference(input, range)

\* C9 amended: the same, the reference taken at the (PK, TS) that have a
\* positively weighted payload.
C9_LinearPositive ==
  /\ LinearIsWeightedSum
  /\ output = ExpectedRows(input, range)

C9_Witness ==
  /\ variant = "linear"
  /\ \E r \in InRecs, e \in output :
       /\ input[r] = 2
       /\ e[1][1] = r[1]
       /\ e[1][2] = r[2]
       /\ e[1][3] = Some(2 * r[3])

\* C10: with the single-point range and inputs of weight one, the aggregate
\* emitted for (PK, TS) is Some(payload) of the input record at (PK, TS).
C10_IdentityRoundTrip ==
  (range = PointRange /\ \A r \in InRecs : input[r] \in {0, 1}) =>
    \A r \in InSupport(input) :
      (\A v \in Vals \ {r[3]} : input[<<r[1], r[2], v>>] = 0)
        => /\ ZWeight(output, <<r[1], r[2], Some(r[3])>>) = 1
           /\ \A e \in output :
                (e[1][1] = r[1] /\ e[1][2] = r[2]) => e[1][3] = Some(r[3])

C10_Witness ==
  /\ range = PointRange
  /\ \A r \in InRecs : input[r] \in {0, 1}
  /\ ZWeight(output, <<0, 0, Some(1)>>) = 1
  /\ ZWeight(output, <<0, 1, Some(2)>>) = 1

\* ------------------------------------------------------------ advance

\* Linear-search limit of advance.
DEFAULT_SMALL_LIMIT == 8

\* Longest slice explored.
MaxSliceLen == 20

\* Sorted haystacks over the two values of the unit tests, needles around
\* them and element sizes of the byte image.
Haystacks ==
  {[i \in 1 .. p[1] |-> IF i <= p[2] THEN 1 ELSE 568] :
     p \in {q \in (0 .. MaxSliceLen) \X (0 .. MaxSliceLen) : q[2] <= q[1]}}
Needles == {1, 2, 569}
ElemSizes == {2, 3}

\* The predicate of the tests, |&x| x < needle, and slice[i] (from 0).
Pred(x, n) == x < n
At(slice, i) == slice[i + 1]
Min2(a, b) == IF a <= b THEN a ELSE b

\* slice[..limit].iter().position(|x| !function(x)).unwrap_or(limit)
RECURSIVE Position(_, _, _, _)
Position(slice, n, i, limit) ==
  IF i >= limit THEN limit
  ELSE IF ~Pred(At(slice, i), n) THEN i
  ELSE Position(slice, n, i + 1, limit)

\* "Advance in exponentially growing steps": the final (index, step).
RECURSIVE GrowSteps(_, _, _, _)
GrowSteps(slice, n, index, step) ==
  IF index + step < Len(slice) /\ Pred(At(slice, index + step), n)
  THEN GrowSteps(slice, n, index + step, step * 2)
  ELSE <<index, step>>

RECURSIVE ShrinkSteps_NoTest(_, _, _, _)
ShrinkSteps_NoTest(slice, n, index, step) ==
  IF step = 0 THEN index
  ELSE ShrinkSteps_NoTest(slice, n,
                          IF index + step < Len(slice) THEN index + step ELSE index,
                          step \div 2)

\* "Advance in exponentially shrinking steps": the final index.
RECURSIVE ShrinkSteps(_, _, _, _)
ShrinkSteps(slice, n, index, step) ==
  IF step = 0 THEN index
  ELSE ShrinkSteps(slice, n,
                   IF index + step < Len(slice) /\ Pred(At(slice, index + step), n)
                   THEN index + step ELSE index,
                   step \div 2)

AdvanceRaw_NoShrink(slice, n, smallLimit) ==
  IF Len(slice) > smallLimit /\ Pred(At(slice, smallLimit), n)
  THEN IF smallLimit + 1 < Len(slice) /\ Pred(At(slice, smallLimit + 1), n)
       THEN GrowSteps(slice, n, smallLimit + 1, 1)[1] + 1
       ELSE smallLimit + 1
  ELSE Position(slice, n, 0, Min2(Len(slice), smallLimit))

\* advance_raw::<T, F, SMALL_LIMIT>.
AdvanceRaw(slice, n, smallLimit) ==
  IF Len(slice) > smallLimit /\ Pred(At(slice, smallLimit), n)
  THEN IF smallLimit + 1 < Len(slice) /\ Pred(At(slice, smallLimit + 1), n)
       THEN LET g == GrowSteps(slice, n, smallLimit + 1, 1)
            IN ShrinkSteps(slice, n, g[1], g[2] \div 2) + 1
       ELSE smallLimit + 1
  ELSE Position(slice, n, 0, Min2(Len(slice), smallLimit))

\* advance.
Advance(slice, n) == AdvanceRaw(slice, n, DEFAULT_SMALL_LIMIT)

\* bytes_of: the little-endian byte image of the slice.
BytesOf(slice, size) ==
  [b \in 1 .. Len(slice) * size |->
     (slice[((b - 1) \div size) + 1] \div (256 ^ ((b - 1) % size))) % 256]

\* *x.cast::<usize>(): the element read at byte offset ptr.
ReadAt(bytes, ptr, size) ==
  LET rd[j \in 0 .. size] == IF j = size THEN 0 ELSE bytes[ptr + j + 1] + 256 * rd[j + 1]
  IN rd[0]

\* SlicePtr::new, len and get_unchecked (a pointer is its byte offset).
SlicePtrNew(bytes, size) == [elements |-> Len(bytes) \div size, element_size |-> size]

GetUnchecked_NoScale(sp, idx) == idx

GetUnchecked(sp, idx) == idx * sp.element_size

\* The erased predicate of the tests; it reads the element at the pointer.
ErasedPred(bytes, sp, ptr, n) == ReadAt(bytes, ptr, sp.element_size) < n

\* The linear loop of advance_erased: the result and the pointers probed.
RECURSIVE ErasedPosition(_, _, _, _, _, _)
ErasedPosition(bytes, sp, n, offset, limit, probes) ==
  IF offset >= limit THEN [count |-> limit, probes |-> probes]
  ELSE LET ptr == GetUnchecked(sp, offset)
       IN IF ~ErasedPred(bytes, sp, ptr, n)
          THEN [count |-> offset, probes |-> probes \cup {ptr}]
          ELSE ErasedPosition(bytes, sp, n, offset + 1, limit, probes \cup {ptr})

RECURSIVE ErasedGrow(_, _, _, _, _, _)
ErasedGrow(bytes, sp, n, index, step, probes) ==
  IF index + step < sp.elements
  THEN LET ptr == GetUnchecked(sp, index + step)
       IN IF ErasedPred(bytes, sp, ptr, n)
          THEN ErasedGrow(bytes, sp, n, index + step, step * 2, probes \cup {ptr})
          ELSE [index |-> index, step |-> step, probes |-> probes \cup {ptr}]
  ELSE [index |-> index, step |-> step, probes |-> probes]

RECURSIVE ErasedShrink(_, _, _, _, _, _)
ErasedShrink(bytes, sp, n, index, step, probes) ==
  IF step = 0 THEN [count |-> index + 1, probes |-> probes]
  ELSE IF index + step < sp.elements
       THEN LET ptr == GetUnchecked(sp, index + step)
            IN ErasedShrink(bytes, sp, n,
                            IF ErasedPred(bytes, sp, ptr, n) THEN index + step ELSE index,
                            step \div 2, probes \cup {ptr})
       ELSE ErasedShrink(bytes, sp, n, index, step \div 2, probes)

\* advance_erased: the count and the set of pointers passed to the predicate.
AdvanceErased(bytes, size, n) ==
  LET sp == SlicePtrNew(bytes, size)
      p0 == GetUnchecked(sp, DEFAULT_SMALL_LIMIT)
      p1 == GetUnchecked(sp, DEFAULT_SMALL_LIMIT + 1)
  IN IF sp.elements = 0 THEN [count |-> 0, probes |-> {}]
     ELSE IF sp.elements > DEFAULT_SMALL_LIMIT /\ ErasedPred(bytes, sp, p0, n)
     THEN IF DEFAULT_SMALL_LIMIT + 1 < sp.elements
          THEN IF ErasedPred(bytes, sp, p1, n)
               THEN LET g == ErasedGrow(bytes, sp, n, DEFAULT_SMALL_LIMIT + 1, 1, {p0, p1})
                    IN ErasedShrink(bytes, sp, n, g.index, g.step \div 2, g.probes)
               ELSE [count |-> DEFAULT_SMALL_LIMIT + 1, probes |-> {p0, p1}]
          ELSE [count |-> DEFAULT_SMALL_LIMIT + 1, probes |-> {p0}]
     ELSE ErasedPosition(bytes, sp, n, 0, Min2(sp.elements, DEFAULT_SMALL_LIMIT),
                         IF sp.elements > DEFAULT_SMALL_LIMIT THEN {p0} ELSE {})

\* A sorted haystack, a needle and an element size are chosen.
InitAdvance ==
  /\ IdleExcept("advance")
  /\ haystack \in Haystacks
  /\ needle \in Needles
  /\ elemSize \in ElemSizes
  /\ count = None
  /\ erased = None

\* advance_test: advance(haystack, |&x| x < needle).
CallAdvance ==
  /\ count = None
  /\ count' = Some(Advance(haystack, needle))
  /\ UNCHANGED <<advOthers, haystack, needle, elemSize, erased>>

\* advance_erased_test: advance_erased over bytes_of(haystack).
CallAdvanceErased ==
  /\ erased = None
  /\ erased' = Some(AdvanceErased(BytesOf(haystack, elemSize), elemSize, needle))
  /\ UNCHANGED <<advOthers, haystack, needle, elemSize, count>>

NextAdvance == CallAdvance \/ CallAdvanceErased

SpecAdvance == InitAdvance /\ [][NextAdvance]_<<vars, auxVars>>

\* Number of leading elements of the haystack below the needle.
LeadingCount ==
  CHOOSE k \in 0 .. Len(haystack) :
    /\ \A i \in 1 .. k : haystack[i] < needle
    /\ k = Len(haystack) \/ ~(haystack[k + 1] < needle)

\* C11: advance(slice, pred) returns the number of leading elements of the
\* slice for which pred holds, for every slice length and every predicate
\* that stays false once it is false.
C11_AdvanceCount == IsSome(count) => Get(count) = LeadingCount

C11_Witness ==
  /\ IsSome(count)
  /\ Len(haystack) > 2 * DEFAULT_SMALL_LIMIT
  /\ Get(count) = DEFAULT_SMALL_LIMIT + 6

\* C12: advance_erased over the byte image returns the count of advance on
\* the typed slice, and passes the predicate only pointers to element starts
\* inside the slice.
C12_ErasedAgrees ==
  IsSome(erased) =>
    /\ Get(erased).count = Advance(haystack, needle)
    /\ Get(erased).count = LeadingCount
    /\ \A ptr \in Get(erased).probes :
         ptr % elemSize = 0 /\ ptr + elemSize <= Len(haystack) * elemSize

C12_Witness ==
  /\ IsSome(erased)
  /\ Len(haystack) > 2 * DEFAULT_SMALL_LIMIT
  /\ Get(erased).count = DEFAULT_SMALL_LIMIT + 6
  /\ \E ptr \in Get(erased).probes : ptr > (DEFAULT_SMALL_LIMIT + 6) * elemSize


\* ------------------------------------------------------------ trace bounds protocol
\* integrate_trace_with_bound, TraceBound, TraceBounds and Z1Trace of
\* operator/trace.rs, for a circuit that requests traces of its streams
\* while it is built and then runs clock ticks.

MaxBoundTicks == 2
MaxRegs == 3

\* Bounds the consumers set, and the batches the streams carry: rows of the
\* shape of the rolling aggregate's output, bounded on (ts, aggregate).
TbValues == {<<1, None>>, <<2, None>>}
TbBatches == {{<<<<0, ts, None>>, 1>>} : ts \in 0 .. 2}

\* TraceBound::new: a fresh cell holding None.
TraceBoundNew(cells) == Append(cells, None)

\* TraceBound::set through any clone of the handle.
TraceBoundSet(cells, c, v) == [cells EXCEPT ![c] = Some(v)]

CurrentBounds_FirstOnly(bounds, cells) ==
  [unbounded |-> bounds.unbounded,
   cells |-> [i \in 1 .. Len(bounds.cells) |-> cells[bounds.cells[1]]]]

\* TraceBounds::get of every registered handle.
CurrentBounds(bounds, cells) ==
  [unbounded |-> bounds.unbounded,
   cells |-> [i \in 1 .. Len(bounds.cells) |-> cells[bounds.cells[i]]]]

AddBound_Always(bounds, cell) == Bounded(Append(bounds.cells, cell))

\* TraceBounds::add_bound: pushes the handle unless the collection is unbounded.
AddBound(bounds, cell) ==
  IF bounds.unbounded THEN bounds ELSE Bounded(Append(bounds.cells, cell))

MakeUnbounded_Noop(bounds) == bounds

\* TraceBounds::make_unbounded.
MakeUnbounded(bounds) == Unbounded

\* Circuit::cache_get_or_insert_with: the closure's value only when the key
\* is absent.
CacheGetOrInsertWith(entry, fresh) == IF IsSome(entry) THEN entry ELSE Some(fresh)

CachedTrace_OneKey(cache, n, fresh) ==
  CacheGetOrInsertWith(cache[CHOOSE m \in Nodes : \A k \in Nodes : m <= k], fresh)

\* The cache lookup of integrate_trace_with_bound, under the key
\* IntegrateTraceId(origin node id of the stream).
CachedTrace(cache, n, fresh) == CacheGetOrInsertWith(cache[n], fresh)

\* Calls of integrate_trace_with_bound made so far.
TotalCalls(h) ==
  LET RECURSIVE Sum(_)
      Sum(S) == IF S = {} THEN 0
                ELSE LET n == CHOOSE n \in S : TRUE
                     IN h[n].some + h[n].none + Sum(S \ {n})
  IN Sum(Nodes)

IntegrateTraceWithBound_Z1Bounds(n, withBound) ==
  /\ tbTick = 0
  /\ TotalCalls(tbHist) < MaxRegs
  /\ LET fresh == [trace |-> Len(tbZ1) + 1, bounds |-> Len(tbBounds) + 1]
         entry == CachedTrace(tbCache, n, fresh)
         created == Get(entry) = fresh
         heap == IF created THEN Append(tbBounds, Bounded(<< >>)) ELSE tbBounds
         b == IF created THEN fresh.bounds ELSE tbZ1[Get(entry).trace].bounds
     IN /\ tbCache' = [tbCache EXCEPT ![n] = entry]
        /\ tbZ1' = IF created
                   THEN Append(tbZ1, [node |-> n, bounds |-> fresh.bounds, trace |-> EmptyZ,
                                      effective_bound |-> None, dropped |-> EmptyZ,
                                      calls |-> << >>])
                   ELSE tbZ1
        /\ IF withBound
           THEN /\ tbCells' = TraceBoundNew(tbCells)
                /\ tbBounds' = [heap EXCEPT ![b] = AddBound(heap[b], Len(tbCells) + 1)]
           ELSE /\ tbCells' = tbCells
                /\ tbBounds' = [heap EXCEPT ![b] = MakeUnbounded(heap[b])]
        /\ tbHist' = [tbHist EXCEPT ![n] =
                        [some |-> @.some + (IF withBound THEN 1 ELSE 0),
                         none |-> @.none + (IF withBound THEN 0 ELSE 1),
                         ignored |-> @.ignored + (IF withBound /\ heap[b].unbounded THEN 1 ELSE 0),
                         returned |-> @.returned \cup {Get(entry).trace}]]
  /\ UNCHANGED <<tbOthers, tbTick, tbIntegral>>

\* stream.integrate_trace_with_bound(lower_bound) on the stream of node n,
\* lower_bound being Some(TraceBound::new()) or None.
IntegrateTraceWithBound(n, withBound) ==
  /\ tbTick = 0
  /\ TotalCalls(tbHist) < MaxRegs
  /\ LET fresh == [trace |-> Len(tbZ1) + 1, bounds |-> Len(tbBounds) + 1]
         entry == CachedTrace(tbCache, n, fresh)
         created == Get(entry) = fresh
         heap == IF created THEN Append(tbBounds, Bounded(<< >>)) ELSE tbBounds
         b == Get(entry).bounds
     IN /\ tbCache' = [tbCache EXCEPT ![n] = entry]
        /\ tbZ1' = IF created
                   THEN Append(tbZ1, [node |-> n, bounds |-> fresh.bounds, trace |-> EmptyZ,
                                      effective_bound |-> None, dropped |-> EmptyZ,
                                      calls |-> << >>])
                   ELSE tbZ1
        /\ IF withBound
           THEN /\ tbCells' = TraceBoundNew(tbCells)
                /\ tbBounds' = [heap EXCEPT ![b] = AddBound(heap[b], Len(tbCells) + 1)]
           ELSE /\ tbCells' = tbCells
                /\ tbBounds' = [heap EXCEPT ![b] = MakeUnbounded(heap[b])]
        /\ tbHist' = [tbHist EXCEPT ![n] =
                        [some |-> @.some + (IF withBound THEN 1 ELSE 0),
                         none |-> @.none + (IF withBound THEN 0 ELSE 1),
                         ignored |-> @.ignored + (IF withBound /\ heap[b].unbounded THEN 1 ELSE 0),
                         returned |-> @.returned \cup {Get(entry).trace}]]
  /\ UNCHANGED <<tbOthers, tbTick, tbIntegral>>

RegisterBound == \E n \in Nodes : IntegrateTraceWithBound(n, TRUE)

RegisterUnbounded == \E n \in Nodes : IntegrateTraceWithBound(n, FALSE)

\* A consumer raises its bound.
SetBound ==
  \E c \in 1 .. Len(tbCells), v \in TbValues :
    /\ IF tbCells[c] = None THEN TRUE ELSE ValLess(Get(tbCells[c]), v)
    /\ tbCells' = TraceBoundSet(tbCells, c, v)
    /\ UNCHANGED <<tbOthers, tbBounds, tbZ1, tbCache, tbTick, tbIntegral, tbHist>>

\* One clock tick: every trace is extended by the batch of its stream and
\* handed to its Z1Trace, which truncates and stores it.
BoundsTick ==
  \E batch \in TbBatches :
    /\ tbTick < MaxBoundTicks
    /\ tbZ1 # << >>
    /\ tbTick' = tbTick + 1
    /\ tbIntegral' = ZAdd(tbIntegral, batch)
    /\ tbZ1' = [k \in 1 .. Len(tbZ1) |->
                  LET z == tbZ1[k]
                      i == TraceAppend(z.trace, batch)
                      effective == EffectiveBound(CurrentBounds(tbBounds[z.bounds], tbCells))
                      r == Z1EvalStrictOwned(i, z.effective_bound, effective)
                  IN [z EXCEPT !.trace = r.trace,
                               !.effective_bound = r.effective_bound,
                               !.dropped = i \ r.trace,
                               !.calls = r.calls]]
    /\ UNCHANGED <<tbOthers, tbCells, tbBounds, tbCache, tbHist>>

InitBounds == IdleExcept("none")

NextBounds == RegisterBound \/ RegisterUnbounded \/ SetBound \/ BoundsTick

SpecBounds == InitBounds /\ [][NextBounds]_<<vars, auxVars>>

\* ------------------------------------------------------------ properties of the trace bounds

\* e is the least of the bounds cs: None while one of them is unset, else a
\* set value of cs that no other value of cs is below.
IsLeastBound(e, cs) ==
  IF \E i \in 1 .. Len(cs) : cs[i] = None
  THEN e = None
  ELSE /\ IsSome(e)
       /\ \E i \in 1 .. Len(cs) : cs[i] = e
       /\ \A j \in 1 .. Len(cs) : ~ValLess(Get(cs[j]), Get(e))

\* C13: the effective bound of a bounded collection holding at least one
\* bound is the least of the current values of its bounds, an unset bound
\* counting below every set one; and what a Z1Trace reads at a tick is that
\* least value of the cells as the consumers' handles last set them.
C13_EffectiveBoundIsMin ==
  [][ /\ \A b \in 1 .. Len(tbBounds') :
           LET cur == CurrentBounds(tbBounds'[b], tbCells')
           IN (~cur.unbounded /\ Len(cur.cells) >= 1)
                => IsLeastBound(EffectiveBound(cur), cur.cells)
      /\ tbTick' # tbTick =>
           \A k \in 1 .. Len(tbZ1') :
             LET cur == CurrentBounds(tbBounds'[tbZ1'[k].bounds], tbCells')
             IN (~cur.unbounded /\ Len(cur.cells) >= 1)
                  => IsLeastBound(tbZ1'[k].effective_bound, cur.cells) ]_tbVars

\* A trace with two bounds set to different values has read the lower one.
C13_Witness ==
  /\ tbTick > 0
  /\ \E k \in 1 .. Len(tbZ1) :
       LET cur == CurrentBounds(tbBounds[tbZ1[k].bounds], tbCells)
       IN /\ ~cur.unbounded
          /\ Len(cur.cells) = 2
          /\ cur.cells[1] = Some(<<2, None>>)
          /\ cur.cells[2] = Some(<<1, None>>)
          /\ tbZ1[k].effective_bound = Some(<<1, None>>)

C15_UnboundedIrreversible ==
  \A n \in Nodes :
    tbHist[n].none > 0 =>
      LET b == Get(tbCache[n]).bounds
      IN /\ tbBounds[b] = Unbounded
         /\ EffectiveBound(CurrentBounds(tbBounds[b], tbCells)) = None
         /\ \A k \in 1 .. Len(tbZ1) :
              tbZ1[k].bounds = b =>
                /\ tbZ1[k].effective_bound = None
                /\ tbZ1[k].dropped = EmptyZ
                /\ tbZ1[k].trace = tbIntegral

\* A stream was requested with a bound, then without, then with a bound
\* again; both bounds were set above a row of the trace and ticks ran.
C15_Witness ==
  \E n \in Nodes :
    /\ tbHist[n].none = 1
    /\ tbHist[n].some = 2
    /\ tbHist[n].ignored = 1
    /\ tbTick = MaxBoundTicks
    /\ \A c \in 1 .. Len(tbCells) : tbCells[c] = Some(<<2, None>>)
    /\ \E e \in tbIntegral : e[1][2] = 0

\* The bounded coordinate (ts, aggregate) of an entry of a trace.
KeyOf(e) == <<e[1][2], e[1][3]>>

\* C16: a tuple leaves a trace held by a Z1Trace only when it is below the
\* current value of every bound registered for the trace, all of them
\* set; a tuple that is not below some consumer's bound, or whose trace has
\* an unset bound or is unbounded, is still in the trace.
C16_RetentionSafety ==
  \A k \in 1 .. Len(tbZ1) :
    LET z == tbZ1[k]
        bs == tbBounds[z.bounds]
    IN /\ \A e \in z.dropped :
            /\ ~bs.unbounded
            /\ \A i \in 1 .. Len(bs.cells) :
                 /\ IsSome(tbCells[bs.cells[i]])
                 /\ ValLess(KeyOf(e), Get(tbCells[bs.cells[i]]))
       /\ \A e \in tbIntegral :
            ( \/ bs.unbounded
              \/ \E i \in 1 .. Len(bs.cells) :
                   IF tbCells[bs.cells[i]] = None THEN TRUE
                   ELSE ~ValLess(KeyOf(e), Get(tbCells[bs.cells[i]])) )
              => e \in z.trace

\* A trace with two consumers, bounds 2 and 1: the last tick dropped the row
\* at 0 and kept the row at 1, which is below one bound but not the other.
C16_Witness ==
  \E k \in 1 .. Len(tbZ1) :
    LET z == tbZ1[k]
        bs == tbBounds[z.bounds]
    IN /\ ~bs.unbounded
       /\ Len(bs.cells) = 2
       /\ tbCells[bs.cells[1]] = Some(<<2, None>>)
       /\ tbCells[bs.cells[2]] = Some(<<1, None>>)
       /\ \E e \in z.dropped : KeyOf(e)[1] = 0
       /\ \E e \in z.trace : KeyOf(e)[1] = 1

MaxOwnTicks == 3

AppendOps == {"UntimedTraceAppend", "TraceAppend"}
BinaryVariants == {"eval", "eval_owned_and_ref", "eval_ref_and_owned", "eval_owned"}
StrictVariants == {"eval_strict", "eval_strict_owned"}

\* UntimedTraceAppend as a BinaryOperator: None stands for the panic of the
\* variants that receive the trace by reference.
UntimedTraceAppendEval(variant_, trace, batch) ==
  IF variant_ \in {"eval", "eval_ref_and_owned"}
  THEN None
  ELSE Some(TraceAppend(trace, batch))

\* TraceAppend as a BinaryOperator: unimplemented!() for the trace by
\* reference, else the trace with the batch inserted at the clock's time.
TraceAppendEval(variant_, trace, batch) ==
  IF variant_ \in {"eval", "eval_ref_and_owned"}
  THEN None
  ELSE Some(ZAdd(trace, batch))

\* Z1Trace as a StrictUnaryOperator over an unbounded collection:
\* eval_strict is unimplemented!(), eval_strict_owned stores the trace.
Z1TraceEval(variant_, i) ==
  IF variant_ = "eval_strict"
  THEN None
  ELSE Some(Z1EvalStrictOwned(i, None, EffectiveBound(Unbounded)).trace)

InitOwnership ==
  /\ IdleExcept("ownership")
  /\ owOp \in AppendOps
  /\ owTrace = EmptyZ
  /\ owExpected = EmptyZ
  /\ owTick = 0
  /\ owHanded = << >>
  /\ owPanicked = FALSE

\* One clock tick: the scheduler calls one variant of the append operator
\* on the stored trace and the batch, then one variant of Z1Trace on the
\* result; a panic ends the circuit.
OwnershipTick ==
  \E batch \in TbBatches, av \in BinaryVariants, zv \in StrictVariants :
    /\ ~owPanicked
    /\ owTick < MaxOwnTicks
    /\ owTick' = owTick + 1
    /\ owHanded' = <<av, zv>>
    /\ owExpected' = ZAdd(owExpected, batch)
    /\ LET a == IF owOp = "UntimedTraceAppend"
                THEN UntimedTraceAppendEval(av, owTrace, batch)
                ELSE TraceAppendEval(av, owTrace, batch)
           z == IF IsSome(a) THEN Z1TraceEval(zv, Get(a)) ELSE None
       IN /\ owPanicked' = (z = None)
          /\ owTrace' = IF IsSome(z) THEN Get(z) ELSE owTrace
    /\ UNCHANGED <<owOthers, owOp>>

NextOwnership == OwnershipTick

SpecOwnership == InitOwnership /\ [][NextOwnership]_<<vars, auxVars>>

\* C18: whichever variants the scheduler calls, by value or by reference,
\* no operator fails and the stored trace is the trace extended by the
\* batch of every tick.
C18_ReferenceRecoverable ==
  /\ ~owPanicked
  /\ owTrace = owExpected

\* ------------------------------------------------------------ feedback delay

\* C19: the trace the operator reads as its fourth input is empty at the
\* first tick; at every tick the retractions are taken from that delayed
\* trace, which holds no output of the tick itself; the trace stored for the
\* next tick is the delayed trace plus the tick's output delta, less only
\* entries below the bound read at the end of the tick; and the input trace
\* and the tree read at the tick hold the tick's delta: a record the tick
\* inserts into the window has its row among the tick's insertions, with an
\* aggregate when its own timestamp is inside its range.
C19_FeedbackDelay ==
  [][ LET full == ZAdd(z1trace, outDelta')
      IN /\ tick = 0 => z1trace = EmptyZ
         /\ \A e \in retracted' : ZWeight(z1trace, e[1]) = 0 - e[2]
         /\ \A e \in z1trace' : e \in full
         /\ \A e \in full \ z1trace' :
              IsSome(z1bound') /\ ValLess(<<e[1][2], e[1][3]>>, Get(z1bound'))
         /\ \A r \in InRecs :
              (delta'[r] > 0 /\ window'[r] > 0 /\ IsSome(RangeOf(range, r[2])))
                => \E e \in inserted' :
                     /\ e[1][1] = r[1]
                     /\ e[1][2] = r[2]
                     /\ (Get(RangeOf(range, r[2])).from <= r[2] /\ r[2] <= Get(RangeOf(range, r[2])).to)
                          => IsSome(e[1][3]) ]_vars

\* The second tick retracted a row of the first tick's output, inserted a
\* row, and the stored trace lost an entry to truncation.
C19_Witness ==
  /\ tick = 2
  /\ retracted # EmptyZ
  /\ inserted # EmptyZ
  /\ \E e \in output : e \notin z1trace /\ e[1][2] < Get(z1bound)[1]

\* ------------------------------------------------------------ range queries

\* C20: for every partition that holds records and every range [from, to],
\* aggregate_range of the radix tree over the integrated input equals the
\* direct scan of the integrated input that adds value * weight of every
\* record of the partition with a timestamp in the range; it is None
\* exactly when no populated timestamp lies in the range, in particular
\* when from > to.
C20_RangeQuery ==
  \A pk \in PKs, from \in TSs, to \in TSs :
    LET t == AggregateRange(Tree(window, Kind)[pk], Range(from, to))
        hit == {ts \in TSs : from <= ts /\ ts <= to
                             /\ \E v \in Vals : window[<<pk, ts, v>>] # 0}
    IN /\ (\E r \in InSupport(window) : r[1] = pk)
            => t = AggregateRangeSlow(window, pk, Range(from, to))
       /\ (t = None) <=> (hit = {})
       /\ from > to => t = None

\* A partition with records at two timestamps, one of weight 2, and a range
\* over both whose aggregate combines them.
C20_Witness ==
  \E pk \in PKs, from \in TSs, to \in TSs :
    /\ from < to
    /\ \E v \in Vals : window[<<pk, from, v>>] = 2
    /\ \E v \in Vals : window[<<pk, to, v>>] = 1
    /\ \E v \in Vals, w \in Vals :
         /\ window[<<pk, from, v>>] = 2 /\ window[<<pk, to, w>>] = 1
         /\ AggregateRange(Tree(window, Kind)[pk], Range(from, to)) = Some(2 * v + w)

\* ------------------------------------------------------------ partitioned radix tree
\* The tree of every partition as a sparse map from node paths to
\* accumulators: node (d, p) covers the timestamps
\* [p * 2^(w-d), (p+1) * 2^(w-d)), w being the bit width of TS.

MaxRadixTicks == 2

\* Bit width of the model's timestamps.
RadixBits == CHOOSE w \in 0 .. Cardinality(TSs) : 2 ^ w = Cardinality(TSs)

\* Timestamps below the node (d, p).
Covered(d, p) ==
  {ts \in TSs : p * 2 ^ (RadixBits - d) <= ts /\ ts < (p + 1) * 2 ^ (RadixBits - d)}

RadixNodes == {n \in PKs \X (0 .. RadixBits) \X TSs : n[3] < 2 ^ n[2]}

\* Semigroup combination of two optional accumulators, absent being identity.
Combine(a, b) ==
  IF a = None THEN b
  ELSE IF b = None THEN a
  ELSE Some(Get(a) + Get(b))

\* The accumulator stored at a node, None when the node is absent.
Lookup(tree, node) ==
  LET m == {e \in tree : e[1] = node}
  IN IF m = {} THEN None ELSE Some((CHOOSE e \in m : TRUE)[2])

\* The accumulator of node (pk, d, p) after the input changed at the leaves
\* touched: a touched leaf is aggregated anew from the input trace, an
\* ancestor of a touched leaf is the combination of its children, any other
\* node is read from the tree as it was.
RECURSIVE NewValue(_, _, _, _, _)
NewValue(tree, trace, kind, touched, node) ==
  LET pk == node[1]
      d == node[2]
      p == node[3]
  IN IF \A ts \in Covered(d, p) : <<pk, ts>> \notin touched
     THEN Lookup(tree, node)
     ELSE IF d = RadixBits
          THEN Aggregate(kind, ValCursor(trace, pk, p))
          ELSE Combine(NewValue(tree, trace, kind, touched, <<pk, d + 1, 2 * p>>),
                       NewValue(tree, trace, kind, touched, <<pk, d + 1, 2 * p + 1>>))

\* Delta of the tree stream for a tick: the nodes on the paths of the
\* touched leaves whose accumulator changed, old entries retracted and new
\* entries inserted.
TreeDelta(tree, trace, kind, touched) ==
  LET path == {n \in RadixNodes : \E ts \in Covered(n[2], n[3]) : <<n[1], ts>> \in touched}
      changed == {n \in path : NewValue(tree, trace, kind, touched, n) # Lookup(tree, n)}
  IN [retracted |-> {e \in tree : e[1] \in changed},
      inserted |-> {<<n, Get(NewValue(tree, trace, kind, touched, n))>> :
                      n \in {x \in changed : IsSome(NewValue(tree, trace, kind, touched, x))}}]

IntegrateTree_InsertOnly(tree, d) == tree \cup d.inserted

\* integrate_trace of the tree stream.
IntegrateTree(tree, d) == (tree \ d.retracted) \cup d.inserted

InitRadix ==
  /\ IdleExcept("radix")
  /\ rxKind \in {"fold", "linear"}
  /\ rxTrace = ZeroIn
  /\ rxTree = {}
  /\ rxTick = 0
  /\ rxEmptied = {}

\* One clock tick: the delta is integrated into the input trace and the
\* tree's delta for the touched leaves into the tree.
RadixTick ==
  \E d \in Batches :
    /\ rxTick < MaxRadixTicks
    /\ \A r \in InRecs : rxTrace[r] + d[r] \in IntWeights
    /\ rxTick' = rxTick + 1
    /\ rxTrace' = InAdd(rxTrace, d)
    /\ rxTree' = IntegrateTree(rxTree,
                               TreeDelta(rxTree, InAdd(rxTrace, d), rxKind,
                                         {<<r[1], r[2]>> : r \in InSupport(d)}))
    /\ rxEmptied' = {e[1] : e \in rxTree} \ {e[1] : e \in rxTree'}
    /\ UNCHANGED <<rxOthers, rxKind>>

NextRadix == RadixTick

SpecRadix == InitRadix /\ [][NextRadix]_<<vars, auxVars>>

\* Sum of value * weight over the records of a partition at the timestamps
\* S, None when no record there has a weight.
DirectSum(z, pk, S) ==
  LET recs == {r \in InRecs : r[1] = pk /\ r[2] \in S}
      sum[R \in SUBSET recs] ==
        IF R = {} THEN 0
        ELSE LET r == CHOOSE x \in R : TRUE
             IN r[3] * z[r] + sum[R \ {r}]
  IN IF \A r \in recs : z[r] = 0 THEN None ELSE Some(sum[recs])

\* C21: after the deltas of any ticks, a node of the tree has one
\* accumulator; an internal node holds the combination of its children that
\* are present, and at least one is; every node, the root included, holds
\* the sum of value * weight over the records below it; and a node is
\* present exactly when a record with a weight lies below it.
C21_RadixCorrect ==
  /\ \A e \in rxTree, f \in rxTree : e[1] = f[1] => e = f
  /\ \A e \in rxTree : e[1] \in RadixNodes
  /\ \A n \in RadixNodes :
       LET here == Lookup(rxTree, n)
       IN /\ here = DirectSum(rxTrace, n[1], Covered(n[2], n[3]))
          /\ (IsSome(here) /\ n[2] < RadixBits) =>
               /\ here = Combine(Lookup(rxTree, <<n[1], n[2] + 1, 2 * n[3]>>),
                                 Lookup(rxTree, <<n[1], n[2] + 1, 2 * n[3] + 1>>))
               /\ \/ IsSome(Lookup(rxTree, <<n[1], n[2] + 1, 2 * n[3]>>))
                  \/ IsSome(Lookup(rxTree, <<n[1], n[2] + 1, 2 * n[3] + 1>>))

\* The last tick retracted the only record of a leaf of a partition that
\* keeps another leaf: the emptied leaf is gone from the tree, the root
\* stays and holds the remaining leaf alone.
C21_Witness ==
  \E pk \in PKs :
    /\ \E n \in rxEmptied : n[1] = pk /\ n[2] = RadixBits
    /\ \A n \in rxEmptied : n[2] > 0
    /\ IsSome(Lookup(rxTree, <<pk, 0, 0>>))
    /\ Cardinality({e \in rxTree : e[1][1] = pk /\ e[1][2] = RadixBits}) = 1

\* ------------------------------------------------------------ nexmark generator

MaxGenEvents == 5
MaxGenCalls == 8

\* Config::default() of the tests but for max_events: ids and event numbers
\* start at 0, no out-of-order groups, 1 person and 3 auctions per 50 events.
DefaultConfig(max_events) ==
  [max_events |-> max_events,
   first_event_id |-> 0,
   first_event_number |-> 0,
   out_of_order_group_size |-> 1,
   person_proportion |-> 1,
   auction_proportion |-> 3,
   total_proportion |-> 50]

\* Config::next_event_number.
NextEventNumber(config, num_events) == config.first_event_number + num_events

\* Config::next_adjusted_event_number: the event number moved inside its
\* out-of-order group.
NextAdjustedEventNumber(config, num_events) ==
  LET n == config.out_of_order_group_size
      event_number == NextEventNumber(config, num_events)
  IN ((event_number \div n) * n) + ((event_number * 953) % n)

\* Config::timestamp_for_event of the default configuration.
TimestampForEvent(config, event_number) == event_number \div 10

\* NexmarkGenerator::new.
NexmarkGeneratorNew(config, rng, wallclock_base_time) ==
  [config |-> config,
   rng |-> rng,
   events_count_so_far |-> 0,
   wallclock_base_time |-> wallclock_base_time]

HasNext_Inclusive(gen) == gen.events_count_so_far <= gen.config.max_events

\* NexmarkGenerator::has_next.
HasNext(gen) == gen.events_count_so_far < gen.config.max_events

\* NexmarkGenerator::get_next_event_id.
GetNextEventId(gen) ==
  gen.config.first_event_id + NextAdjustedEventNumber(gen.config, gen.events_count_so_far)

\* next_person, next_auction and next_bid: the event made for an id and the
\* generator after the draws from its rng; next_auction returns a Result.
NextPerson(gen, id, ts) ==
  [gen |-> [gen EXCEPT !.rng = @ + 1], event |-> [kind |-> "Person", id |-> id, date_time |-> ts]]
NextAuction(gen, events_count_so_far, id, ts) ==
  [ok |-> TRUE,
   gen |-> [gen EXCEPT !.rng = @ + 1], event |-> [kind |-> "Auction", id |-> id, date_time |-> ts]]
NextBid(gen, id, ts) ==
  [gen |-> [gen EXCEPT !.rng = @ + 1], event |-> [kind |-> "Bid", id |-> id, date_time |-> ts]]

\* NexmarkGenerator::next_event: the generator after the call and the
\* Result<Option<NextEvent>> returned.
NextEvent(gen) ==
  IF ~HasNext(gen)
  THEN [gen |-> gen, ok |-> TRUE, value |-> None]
  ELSE LET event_timestamp ==
             TimestampForEvent(gen.config, NextEventNumber(gen.config, gen.events_count_so_far))
           adjusted_event_timestamp ==
             TimestampForEvent(gen.config,
                               NextAdjustedEventNumber(gen.config, gen.events_count_so_far))
           wallclock_timestamp == gen.wallclock_base_time + event_timestamp
           new_event_id == GetNextEventId(gen)
           rem == new_event_id % gen.config.total_proportion
           made == IF rem < gen.config.person_proportion
                   THEN [ok |-> TRUE] @@ NextPerson(gen, new_event_id, adjusted_event_timestamp)
                   ELSE IF rem < gen.config.person_proportion + gen.config.auction_proportion
                        THEN NextAuction(gen, gen.events_count_so_far, new_event_id,
                                         adjusted_event_timestamp)
                        ELSE [ok |-> TRUE] @@ NextBid(gen, new_event_id, adjusted_event_timestamp)
       IN IF ~made.ok
          THEN [gen |-> made.gen, ok |-> FALSE, value |-> None]
          ELSE [gen |-> [made.gen EXCEPT !.events_count_so_far = @ + 1],
                ok |-> TRUE,
                value |-> Some([wallclock_timestamp |-> wallclock_timestamp,
                                event_timestamp |-> event_timestamp,
                                event |-> made.event])]

\* make_test_generator with max_events and the wallclock base set by the test.
InitNexmark ==
  /\ IdleExcept("nexmark")
  /\ \E max_events \in 0 .. MaxGenEvents, base \in {0, 1000000} :
       nxGen = NexmarkGeneratorNew(DefaultConfig(max_events), 0, base)
  /\ nxCalls = 0
  /\ nxEmitted = << >>
  /\ nxResult = None
  /\ nxHasNext = None

\* ng.next_event()
CallNextEvent ==
  /\ nxCalls < MaxGenCalls
  /\ LET r == NextEvent(nxGen)
     IN /\ nxGen' = r.gen
        /\ nxResult' = Some([ok |-> r.ok, value |-> r.value])
        /\ nxEmitted' = IF r.ok /\ IsSome(r.value)
                        THEN Append(nxEmitted, Get(r.value))
                        ELSE nxEmitted
  /\ nxCalls' = nxCalls + 1
  /\ nxHasNext' = None
  /\ UNCHANGED nxOthers

\* ng.has_next()
CallHasNext ==
  /\ nxHasNext = None
  /\ nxHasNext' = Some(HasNext(nxGen))
  /\ UNCHANGED <<nxOthers, nxGen, nxCalls, nxEmitted, nxResult>>

NextNexmark == CallNextEvent \/ CallHasNext

SpecNexmark == InitNexmark /\ [][NextNexmark]_<<vars, auxVars>>

ExitSuccess == 0
ExitFailure == 1
ExitPanic == 101

\* What can go wrong: File::open, read_to_string, serde_json::from_str,
\* JSONSchema compile, schema.validate, serde_json::from_value,
\* validate_graph, Runtime::init_circuit, runtime.kill.
CliSteps ==
  {"open", "read", "parse", "compile_schema", "validate_schema", "deserialize",
   "validate_graph", "init_circuit", "kill"}

Args == {"-", "graph.json"}

InitCli ==
  /\ IdleExcept("cli")
  /\ cliFile \in Args
  /\ cliFaults \in SUBSET CliSteps
  /\ cliFile = "-" => "open" \notin cliFaults
  /\ cliPc = "open"
  /\ cliRan = << >>
  /\ cliExit = None

\* A step of main: it runs, then main returns code when the step failed
\* and fails by returning, panics when it fails by unwrap, and goes on to
\* next otherwise.
CliStep(step, next, onFailure) ==
  /\ cliPc = step
  /\ cliRan' = Append(cliRan, step)
  /\ IF step \in cliFaults /\ IsSome(onFailure)
     THEN cliPc' = "done" /\ cliExit' = onFailure
     ELSE cliPc' = next /\ cliExit' = cliExit
  /\ UNCHANGED <<cliOthers, cliFile, cliFaults>>

\* stdin, or File::open(&args.file).
OpenSource ==
  /\ cliPc = "open"
  /\ IF cliFile = "-"
     THEN /\ cliPc' = "read"
          /\ UNCHANGED <<cliRan, cliExit>>
     ELSE /\ cliRan' = Append(cliRan, "open")
          /\ IF "open" \in cliFaults
             THEN cliPc' = "done" /\ cliExit' = Some(ExitFailure)
             ELSE cliPc' = "read" /\ cliExit' = cliExit
  /\ UNCHANGED <<cliOthers, cliFile, cliFaults>>

\* source.read_to_string(&mut raw_source)
ReadSource == CliStep("read", "parse", Some(ExitFailure))

\* serde_json::from_str(&raw_source)
ParseJson == CliStep("parse", "compile_schema", Some(ExitFailure))

\* JSONSchema::options().compile(&schema_json): an error is printed and
\* main goes on without validating.
CompileSchema ==
  /\ cliPc = "compile_schema"
  /\ cliRan' = Append(cliRan, "compile_schema")
  /\ cliPc' = IF "compile_schema" \in cliFaults THEN "deserialize" ELSE "validate_schema"
  /\ UNCHANGED <<cliOthers, cliFile, cliFaults, cliExit>>

\* schema.validate(&source)
ValidateSchema == CliStep("validate_schema", "deserialize", Some(ExitFailure))

\* serde_json::from_value::<SqlGraph>(source)
Deserialize == CliStep("deserialize", "validate_graph", Some(ExitFailure))

\* Validator::new(..).validate_graph(&graph)
ValidateGraph == CliStep("validate_graph", "init_circuit", Some(ExitFailure))

\* graph.optimize(), CompiledDataflow::new, then
\* Runtime::init_circuit(1, |circuit| dataflow.construct(circuit)).unwrap()
InitRuntime == CliStep("init_circuit", "kill", Some(ExitPanic))

\* runtime.kill(), then free_memory and ExitCode::SUCCESS.
KillRuntime ==
  /\ cliPc = "kill"
  /\ cliRan' = Append(cliRan, "kill")
  /\ cliPc' = "done"
  /\ cliExit' = IF "kill" \in cliFaults THEN Some(ExitFailure) ELSE Some(ExitSuccess)
  /\ UNCHANGED <<cliOthers, cliFile, cliFaults>>

NextCli ==
  \/ OpenSource
  \/ ReadSource
  \/ ParseJson
  \/ CompileSchema
  \/ ValidateSchema
  \/ Deserialize
  \/ ValidateGraph
  \/ InitRuntime
  \/ KillRuntime

SpecCli == InitCli /\ [][NextCli]_<<vars, auxVars>>

\* The steps main has taken, as a set.
Ran == {cliRan[i] : i \in 1 .. Len(cliRan)}

\* C23: when main has exited, the exit code is 0 exactly when the graph was
\* read, parsed, validated against the schema, deserialized, validated, the
\* circuit was built, one tick was run and the runtime was shut down,
\* every one of them with success; otherwise the code is not 0 and the
\* failed step is the last one taken.
C23_CliOutcome ==
  IsSome(cliExit) =>
    IF Get(cliExit) = ExitSuccess
    THEN /\ Ran \cap cliFaults = {}
         /\ {"read", "parse", "validate_schema", "deserialize", "validate_graph",
             "init_circuit", "tick", "kill"} \subseteq Ran
    ELSE /\ cliRan[Len(cliRan)] \in cliFaults
         /\ \A i \in 1 .. Len(cliRan) - 1 : cliRan[i] \notin cliFaults

\* C24: at each tick a Z1Trace stores the bound it read, also when that is
\* None; it calls truncate_keys_below(b), once, exactly when the bound read
\* is Some(b) and differs from the one remembered from the tick before, and
\* the trace it stores then has no key below b; when the bound read is None
\* or unchanged it makes no call and stores the incoming trace as it is.
C24_TruncationStep ==
  [][ tbTick' # tbTick =>
        \A k \in 1 .. Len(tbZ1) :
          LET read == EffectiveBound(CurrentBounds(tbBounds[tbZ1[k].bounds], tbCells))
              incoming == tbZ1'[k].trace \cup tbZ1'[k].dropped
          IN /\ tbZ1'[k].effective_bound = read
             /\ IF read = None \/ read = tbZ1[k].effective_bound
                THEN /\ tbZ1'[k].calls = << >>
                     /\ tbZ1'[k].dropped = {}
                ELSE /\ tbZ1'[k].calls = <<Get(read)>>
                     /\ tbZ1'[k].trace = TruncateBelow(incoming, Get(read)) ]_tbVars

\* A second tick read the bound the first one had read, made no call and
\* kept a key below that bound.
C24_Witness ==
  /\ tbTick = MaxBoundTicks
  /\ \E k \in 1 .. Len(tbZ1) :
       /\ IsSome(tbZ1[k].effective_bound)
       /\ tbZ1[k].calls = << >>
       /\ \E e \in tbZ1[k].trace : ValLess(<<e[1][2], e[1][3]>>, Get(tbZ1[k].effective_bound))

\* ------------------------------------------------------------ properties of the operator's steps

\* The ranges the operator scans for partition pk in the tick just taken.
TickRanges(pk) == AffectedRanges(range, DeltaTimes(delta, pk))

\* C25: for each partition of the delta, affected_ranges is a sequence of
\* well-formed ranges in ascending order, pairwise disjoint, and a timestamp
\* lies in one of them exactly when it is a changed timestamp of the
\* partition or lies in affected_range_of of one; a changed timestamp
\* without an affected range is covered all the same.
C25_AffectedRanges ==
  \A pk \in DeltaKeys(delta) :
    LET rs == TickRanges(pk)
        changed == DeltaTimes(delta, pk)
    IN /\ \A i \in 1 .. Len(rs) : rs[i].from <= rs[i].to
       /\ \A i \in 1 .. Len(rs) - 1 : rs[i].to < rs[i + 1].from
       /\ \A ts \in TSs :
            InRanges(ts, rs) <=>
              \E t \in changed :
                \/ ts = t
                \/ /\ IsSome(AffectedRangeOf(range, t))
                   /\ Get(AffectedRangeOf(range, t)).from <= ts
                   /\ ts <= Get(AffectedRangeOf(range, t)).to

\* A delta changed a timestamp with an affected range and a later one
\* without: the ranges hold the range of the first and end with the
\* singleton of the second.
C25_Witness ==
  \E pk \in DeltaKeys(delta) :
    \E t1, t2 \in DeltaTimes(delta, pk) :
      /\ t1 < t2
      /\ IsSome(AffectedRangeOf(range, t1))
      /\ AffectedRangeOf(range, t2) = None
      /\ InRanges(Get(AffectedRangeOf(range, t1)).to, TickRanges(pk))
      /\ TickRanges(pk)[Len(TickRanges(pk))] = Range(t2, t2)

\* Rows of an output Z-set at the coordinate (pk, ts).
RowsAt(z, pk, ts) == {e \in z : e[1][1] = pk /\ e[1][2] = ts}

\* C26: a timestamp whose range_of is None gets no insertion in any tick
\* and the integrated output never holds a row there, while the other
\* affected timestamps of the partition with a positively weighted payload
\* and a defined range_of get their insertion in the same tick.
C26_UnderflowNoRow ==
  \A pk \in PKs, ts \in TSs :
    RangeOf(range, ts) = None =>
      /\ RowsAt(inserted, pk, ts) = {}
      /\ RowsAt(outDelta, pk, ts) = {}
      /\ RowsAt(output, pk, ts) = {}
      /\ (pk \in DeltaKeys(delta) /\ InRanges(ts, TickRanges(pk))) =>
           \A ts2 \in TSs :
             (/\ InRanges(ts2, TickRanges(pk))
              /\ IsSome(RangeOf(range, ts2))
              /\ HasPositive(window, pk, ts2))
               => \E e \in RowsAt(inserted, pk, ts2) : e[2] = 1

\* A tick inserted records at a timestamp whose window underflows and at
\* a later one: only the later one has a row.
C26_Witness ==
  \E pk \in DeltaKeys(delta), ts, ts2 \in TSs :
    /\ RangeOf(range, ts) = None
    /\ delta[<<pk, ts, 1>>] > 0
    /\ HasPositive(window, pk, ts)
    /\ ts < ts2
    /\ delta[<<pk, ts2, 1>>] > 0
    /\ RowsAt(inserted, pk, ts2) # {}
    /\ RowsAt(output, pk, ts) = {}

\* No record of partition pk in the input trace lies in the window of ts.
EmptyWindow(pk, ts) ==
  \A t \in TraceTimes(window, pk) :
    t < Get(RangeOf(range, ts)).from \/ t > Get(RangeOf(range, ts)).to

\* C27: an affected timestamp that has a positively weighted payload in the
\* input trace and a defined but unpopulated window gets the single
\* insertion (PK, (TS, None)) with weight +1; and an inserted row carries
\* None only then, a populated window giving Some of the finalized
\* accumulator.
C27_EmptyWindowNone ==
  /\ \A pk \in DeltaKeys(delta), ts \in TSs :
       (/\ InRanges(ts, TickRanges(pk))
        /\ HasPositive(window, pk, ts)
        /\ IsSome(RangeOf(range, ts))
        /\ EmptyWindow(pk, ts))
         => RowsAt(inserted, pk, ts) = {<<<<pk, ts, None>>, 1>>}
  /\ \A e \in inserted :
       /\ IsSome(RangeOf(range, e[1][2]))
       /\ e[1][3] = None <=> EmptyWindow(e[1][1], e[1][2])

\* A record was inserted whose window lies wholly before it and holds
\* nothing: its row is (PK, (TS, None)) and stays in the output.
C27_Witness ==
  \E pk \in PKs, ts \in TSs :
    /\ delta[<<pk, ts, 1>>] > 0
    /\ IsSome(RangeOf(range, ts))
    /\ Get(RangeOf(range, ts)).to < ts
    /\ EmptyWindow(pk, ts)
    /\ ZWeight(inserted, <<pk, ts, None>>) = 1
    /\ ZWeight(output, <<pk, ts, None>>) = 1

\* C28: the insertion builder of a tick holds at most one row per (PK, TS)
\* and every row has weight +1, whatever the number and the weights of the
\* payloads at the timestamp; a timestamp in the affected ranges of a
\* partition of the delta has a row exactly when the input trace holds a
\* payload at (PK, TS) whose weight is not negative (a payload of weight
\* zero being absent from the trace) and range_of(TS) is defined.
C28_OneInsertion ==
  /\ \A e \in inserted : e[2] = 1
  /\ \A pk \in PKs, ts \in TSs : Cardinality(RowsAt(inserted, pk, ts)) <= 1
  /\ \A pk \in DeltaKeys(delta), ts \in TSs :
       InRanges(ts, TickRanges(pk)) =>
         (RowsAt(inserted, pk, ts) # {}
            <=> /\ \E v \in Vals : window[<<pk, ts, v>>] # 0 /\ window[<<pk, ts, v>>] >= 0
                /\ IsSome(RangeOf(range, ts)))

\* A timestamp holding a payload of weight two, or two payloads, one of
\* them possibly negative, was recomputed and has its one row.
C28_Witness ==
  \E pk \in DeltaKeys(delta), ts \in TSs :
    /\ InRanges(ts, TickRanges(pk))
    /\ \/ window[<<pk, ts, 1>>] = 2
       \/ window[<<pk, ts, 1>>] # 0 /\ window[<<pk, ts, 2>>] > 0
    /\ Cardinality(RowsAt(inserted, pk, ts)) = 1

\* C29: the output delta of a tick is the sum of the retraction and the
\* insertion builders and holds no tuple of weight zero; where the row
\* retracted at an affected (PK, TS) was held with weight 1 and the
\* recomputed row is the same, the two cancel and the output delta holds no
\* tuple at that coordinate.
C29_UnchangedCancels ==
  /\ \A e \in outDelta : e[2] # 0
  /\ \A k \in Rows(retracted) \cup Rows(inserted) \cup Rows(outDelta) :
       ZWeight(outDelta, k) = ZWeight(retracted, k) + ZWeight(inserted, k)
  /\ \A k \in Rows(retracted) :
       (/\ RowsAt(retracted, k[1], k[2]) = {<<k, -1>>}
        /\ ZWeight(inserted, k) = 1)
         => RowsAt(outDelta, k[1], k[2]) = {}

\* A tick recomputed a row to the value it had, and changed another one.
C29_Witness ==
  /\ outDelta # {}
  /\ \E k \in Rows(retracted) :
       /\ ZWeight(retracted, k) = -1
       /\ ZWeight(inserted, k) = 1
       /\ ZWeight(output, k) = 1
       /\ RowsAt(outDelta, k[1], k[2]) = {}

\* C30: the builders and the output delta of a tick hold tuples only at
\* partitions of the tick's delta and, there, at timestamps inside the
\* partition's affected ranges; an empty delta gives an empty output
\* delta; every row of the integrated output at another partition or
\* timestamp keeps the weight it had before the tick.
C30_TickFrame ==
  [][ LET keys == DeltaKeys(delta')
          ranges == [pk \in keys |-> AffectedRanges(range', DeltaTimes(delta', pk))]
          Framed(pk, ts) == pk \in keys /\ InRanges(ts, ranges[pk])
      IN /\ \A e \in retracted' \cup inserted' \cup outDelta' : Framed(e[1][1], e[1][2])
         /\ delta' = ZeroIn => outDelta' = EmptyZ
         /\ \A k \in Rows(output) \cup Rows(output') :
              ~Framed(k[1], k[2]) => ZWeight(output', k) = ZWeight(output, k) ]_vars

\* A tick changed the output of one partition while the output holds a row
\* of the other partition and a row of the same partition outside the
\* affected ranges.
C30_Witness ==
  /\ outDelta # EmptyZ
  /\ \E e \in output : e[1][1] \notin DeltaKeys(delta)
  /\ \E e \in output :
       /\ e[1][1] \in DeltaKeys(delta)
       /\ ~InRanges(e[1][2], TickRanges(e[1][1]))

\* ------------------------------------------------------------ properties of the bounds of the circuits

\* watermark - (range.to - range.from) over the integers.
ExactLb == watermark - (OffsetValue(range.to) - OffsetValue(range.from))

\* The same, brought back to the least timestamp when it falls below it.
ClampedLb == IF ExactLb < 0 THEN 0 ELSE ExactLb

\* C31: after each tick of the watermarked circuit the bound installed on
\* the output trace is (lb, None) with lb = watermark - (range.to -
\* range.from), the least timestamp when the subtraction goes below it, and
\* the input window holds exactly the records of the input at timestamps
\* >= that same lb.
C31_LowerBoundArithmetic ==
  tick > 0 =>
    /\ bound = Some(<<ClampedLb, None>>)
    /\ ClampedLb \in TSs
    /\ \A r \in InRecs : window[r] = IF r[2] >= ClampedLb THEN input[r] ELSE 0

\* A tick whose watermark is smaller than the width of the window: the
\* bound is the least timestamp and the window holds a record.
C31_Witness ==
  /\ tick > 0
  /\ ExactLb < 0
  /\ bound = Some(<<0, None>>)
  /\ \E r \in InRecs : window[r] > 0

\* ------------------------------------------------------------ the Z1Trace operator, call by call

MaxZtTicks == 3
MaxZtEnds == 2
\* root_scope of a circuit at the root and of one nested in it, and the
\* nesting levels of their clocks.
RootScopes == {0, 1}
Levels == {0, 1, 2}

\* Timestamp::clock_start and Timestamp::advance: the counter of the level
\* goes up by one and the counters of the levels inside it start again.
TimeClockStart == [l \in Levels |-> 0]
TimeAdvance(t, level) ==
  [l \in Levels |-> IF l = level THEN t[l] + 1 ELSE IF l < level THEN 0 ELSE t[l]]

\* Trace::new, Trace::insert, Trace::dirty and Trace::clear_dirty_flag.
TraceNew == [z |-> EmptyZ, dirty |-> FALSE]
TraceInsert(tr, batch) == [z |-> TraceAppend(tr.z, batch), dirty |-> tr.dirty \/ batch # EmptyZ]
ClearDirtyFlag(tr) == [tr EXCEPT !.dirty = FALSE]

ZtBatches == {EmptyZ, {<<<<0, 0, None>>, 1>>}}

\* Z1Trace::new
InitZ1Op ==
  /\ IdleExcept("z1op")
  /\ ztRoot \in RootScopes
  /\ ztReset \in BOOLEAN
  /\ ztTime = TimeClockStart
  /\ ztSlot = None
  /\ ztHeld = None
  /\ ztDirty = [s \in 0 .. ztRoot |-> FALSE]
  /\ ztPanicked = FALSE
  /\ ztHist = [added |-> [s \in 0 .. ztRoot |-> FALSE], last |-> FALSE, started |-> FALSE,
               evals |-> 0, ends |-> 0, expected |-> TimeClockStart, receded |-> None,
               call |-> "new", scope |-> 0, preSlot |-> FALSE]

\* Z1Trace::clock_start
ClockStart ==
  \E scope \in 0 .. ztRoot :
    /\ ~ztPanicked
    /\ ztDirty' = [ztDirty EXCEPT ![scope] = FALSE]
    /\ ztSlot' = IF scope = 0 /\ ztSlot = None THEN Some(TraceNew) ELSE ztSlot
    /\ ztHist' = [ztHist EXCEPT !.added[scope] = FALSE,
                                !.last = IF scope = 0 THEN FALSE ELSE @,
                                !.started = @ \/ scope = 0,
                                !.call = "clock_start",
                                !.scope = scope]
    /\ UNCHANGED <<ztOthers, ztRoot, ztReset, ztTime, ztHeld, ztPanicked>>

\* Z1Trace::clock_end: recede_to at the end of an epoch of the root's
\* child; the value of self.time.advance(scope + 1) is dropped.
ClockEnd ==
  \E scope \in 0 .. ztRoot :
    /\ ~ztPanicked
    /\ ztHist.ends < MaxZtEnds
    /\ ztTime' = ztTime
    /\ ztHist' = [ztHist EXCEPT !.ends = @ + 1,
                                !.expected = TimeAdvance(@, scope + 1),
                                !.receded = IF scope + 1 = ztRoot /\ ~ztReset /\ IsSome(ztSlot)
                                            THEN Some(ztTime) ELSE @,
                                !.call = "clock_end",
                                !.scope = scope]
    /\ UNCHANGED <<ztOthers, ztRoot, ztReset, ztSlot, ztHeld, ztDirty, ztPanicked>>

GetOutput_NoTake ==
  /\ ~ztPanicked
  /\ IF ztSlot = None
     THEN /\ ztPanicked' = TRUE
          /\ UNCHANGED <<ztSlot, ztHeld>>
     ELSE /\ ztPanicked' = FALSE
          /\ ztHeld' = Some(ClearDirtyFlag(Get(ztSlot)))
          /\ ztSlot' = ztSlot
  /\ ztHist' = [ztHist EXCEPT !.call = "get_output", !.preSlot = IsSome(ztSlot)]
  /\ UNCHANGED <<ztOthers, ztRoot, ztReset, ztTime, ztDirty>>

GetOutputResult_KeepDirty(tr) == tr

\* The trace get_output returns: the stored one, its dirty flag cleared.
GetOutputResult(tr) == ClearDirtyFlag(tr)

\* Z1Trace::get_output: self.trace.take().unwrap()
GetOutput ==
  /\ ~ztPanicked
  /\ IF ztSlot = None
     THEN /\ ztPanicked' = TRUE
          /\ UNCHANGED <<ztSlot, ztHeld>>
     ELSE /\ ztPanicked' = FALSE
          /\ ztHeld' = Some(GetOutputResult(Get(ztSlot)))
          /\ ztSlot' = None
  /\ ztHist' = [ztHist EXCEPT !.call = "get_output", !.preSlot = IsSome(ztSlot)]
  /\ UNCHANGED <<ztOthers, ztRoot, ztReset, ztTime, ztDirty>>

Z1Dirty_Accumulate(dirty, d) == [s \in DOMAIN dirty |-> dirty[s] \/ d]

\* The dirty flags eval_strict_owned leaves, d being the flag of the trace
\* it was given.
Z1Dirty(dirty, d) == [s \in DOMAIN dirty |-> IF s = 0 THEN d ELSE dirty[s] \/ d]

\* The rest of a tick: the circuit inserts the tick's batch into the
\* trace it holds and hands it to Z1Trace::eval_strict_owned.
EvalStrictOwned ==
  \E batch \in ZtBatches :
    /\ ~ztPanicked
    /\ IsSome(ztHeld)
    /\ ztHist.evals < MaxZtTicks
    /\ LET i == TraceInsert(Get(ztHeld), batch)
           r == Z1EvalStrictOwned(i.z, None, EffectiveBound(Unbounded))
       IN /\ ztTime' = TimeAdvance(ztTime, 0)
          /\ ztDirty' = Z1Dirty(ztDirty, i.dirty)
          /\ ztSlot' = Some([i EXCEPT !.z = r.trace])
          /\ ztHist' = [ztHist EXCEPT
                          !.added = [s \in DOMAIN @ |-> @[s] \/ batch # EmptyZ],
                          !.last = batch # EmptyZ,
                          !.evals = @ + 1,
                          !.expected = TimeAdvance(@, 0),
                          !.call = "eval_strict_owned"]
    /\ ztHeld' = None
    /\ UNCHANGED <<ztOthers, ztRoot, ztReset, ztPanicked>>

NextZ1Op == ClockStart \/ ClockEnd \/ GetOutput \/ EvalStrictOwned

SpecZ1Op == InitZ1Op /\ [][NextZ1Op]_<<vars, auxVars>>

\* Z1Trace::fixedpoint and PartitionedRollingAggregate::fixedpoint.
Z1Fixedpoint(scope) == ~ztDirty[scope]
RollingFixedpoint(scope) == TRUE

\* C32 as stated: for every scope s, dirty[s] is true iff a non-empty
\* update was added in some tick since the last clock_start(s), fixedpoint(s)
\* is its negation, and the rolling-aggregate operator reports a fixed
\* point at every scope.
C32_DirtySinceClockStart ==
  \A s \in 0 .. ztRoot :
    /\ ztDirty[s] = ztHist.added[s]
    /\ Z1Fixedpoint(s) = ~ztHist.added[s]
    /\ RollingFixedpoint(s)

\* C32, amended: dirty[0] is true iff the last tick since clock_start(0)
\* added a non-empty update; for a scope s >= 1, dirty[s] is true iff some
\* tick since the last clock_start(s) did; fixedpoint(s) is the negation of
\* dirty[s]; the trace get_output hands out has its own flag cleared; the
\* rolling-aggregate operator reports a fixed point at every scope.
C32_DirtyFlags ==
  /\ ztDirty[0] = ztHist.last
  /\ Z1Fixedpoint(0) = ~ztHist.last
  /\ \A s \in 1 .. ztRoot :
       /\ ztDirty[s] = ztHist.added[s]
       /\ Z1Fixedpoint(s) = ~ztHist.added[s]
  /\ IsSome(ztHeld) => ~Get(ztHeld).dirty
  /\ \A s \in 0 .. ztRoot : RollingFixedpoint(s)

\* A tick that added records was followed by a tick that added none: the
\* flag of scope 0 is down, the flag of scope 1 is up.
C32_Witness ==
  /\ ztRoot = 1
  /\ ztHist.call = "eval_strict_owned"
  /\ ztHist.added[0]
  /\ ~ztDirty[0]
  /\ ztDirty[1]

\* C33: after each tick of the circuit without watermark the integrated
\* output holds, for every (PK, TS), at most one row, and every row it
\* holds has weight exactly 1.
C33_OutputIsFunction ==
  /\ \A e \in output : e[2] = 1
  /\ \A pk \in PKs, ts \in TSs : Cardinality(RowsAt(output, pk, ts)) <= 1

\* A tick replaced the aggregate of a row: the old row was retracted and
\* the coordinate holds the new row alone.
C33_Witness ==
  \E e \in outDelta :
    /\ e[2] = -1
    /\ \E f \in output :
         /\ f[1][3] # e[1][3]
         /\ RowsAt(output, e[1][1], e[1][2]) = {f}

\* C34: after each tick of the watermarked circuit the bound on the values
\* of the output trace is (lb, None); no output row at a timestamp >= lb is
\* below it, whatever its aggregate, and every output row at a timestamp
\* < lb is; the fed-back trace holds exactly the rows of the integrated
\* output at timestamps >= lb, of every partition.
C34_BoundCutsAtLb ==
  tick > 0 =>
    /\ bound = Some(<<ClaimLb, None>>)
    /\ z1bound = bound
    /\ \A e \in output : ValLess(KeyOf(e), Get(bound)) <=> e[1][2] < ClaimLb
    /\ z1trace = {e \in output : e[1][2] >= ClaimLb}

\* The trace lost a row below lb and kept a row at lb whose aggregate is
\* None.
C34_Witness ==
  /\ tick > 0
  /\ ClaimLb > 0
  /\ \E e \in output : e[1][2] < ClaimLb /\ e \notin z1trace
  /\ \E e \in z1trace : e[1][2] = ClaimLb /\ e[1][3] = None

\* C35: in the circuits without watermark the bound on the output trace is
\* never set, the Z1Trace reads None at every tick and truncates nothing:
\* the fed-back output trace is the integral of all output deltas.
C35_NoTruncationWithoutWatermark ==
  /\ bound = None
  /\ z1bound = None
  /\ EffectiveBound(Bounded(<<bound>>)) = None
  /\ z1trace = output

\* Two ticks have passed and the trace holds rows of both: one at the least
\* timestamp and one the second tick added above it.
C35_Witness ==
  /\ tick = MaxTicks
  /\ \E e \in z1trace : e[1][2] = 0 /\ e \notin outDelta
  /\ \E e \in outDelta : e[1][2] > 0 /\ e[2] = 1 /\ e \in z1trace

\* TraceBounds::effective_bound panics: the minimum of no bounds is taken.
EffectiveBoundPanics(bounds) == ~bounds.unbounded /\ Len(bounds.cells) = 0

\* C36: effective_bound panics exactly on a bounded collection without
\* bounds, and after every request, in whatever order bounded and
\* unbounded requests come, the collection of every trace is unbounded or
\* holds at least one bound, so no tick of a Z1Trace panics in it.
C36_EffectiveBoundDefined ==
  /\ EffectiveBoundPanics(Bounded(<< >>))
  /\ ~EffectiveBoundPanics(Unbounded)
  /\ \A b \in 1 .. Len(tbBounds) :
       tbBounds[b].unbounded \/ Len(tbBounds[b].cells) >= 1
  /\ \A k \in 1 .. Len(tbZ1) : ~EffectiveBoundPanics(tbBounds[tbZ1[k].bounds])

\* A tick has run over two traces: one made unbounded by its first request
\* and asked for with a bound afterwards, one bounded whose stream was
\* asked for twice.
C36_Witness ==
  /\ tbTick > 0
  /\ \E n \in Nodes, k \in 1 .. Len(tbZ1) :
       /\ tbZ1[k].node = n
       /\ tbBounds[tbZ1[k].bounds].unbounded
       /\ tbHist[n].ignored > 0
  /\ \E k \in 1 .. Len(tbZ1) :
       /\ ~tbBounds[tbZ1[k].bounds].unbounded
       /\ Len(tbBounds[tbZ1[k].bounds].cells) >= 1

\* C37: the slot of a Z1Trace is empty until clock_start(0) and full right
\* after it; get_output on a full slot moves the trace out and leaves the
\* slot empty, and on an empty slot (before clock_start(0), or after a
\* get_output with no eval_strict_owned since) it panics; eval_strict_owned
\* fills the slot with the trace it was given; so whenever the clock has
\* started and the circuit holds no trace, the slot is full.
C37_SlotProtocol ==
  /\ ~ztHist.started => ztSlot = None
  /\ (ztHist.call = "clock_start" /\ ztHist.scope = 0) => IsSome(ztSlot)
  /\ ztHist.call = "get_output" =>
       IF ztHist.preSlot
       THEN ~ztPanicked /\ ztSlot = None /\ IsSome(ztHeld)
       ELSE ztPanicked
  /\ ztHist.call = "eval_strict_owned" => IsSome(ztSlot) /\ ztHeld = None
  /\ (ztHist.started /\ ztHeld = None /\ ~ztPanicked) => IsSome(ztSlot)
  /\ ztPanicked => (ztHist.call = "get_output" /\ ztSlot = None)

\* After a full tick the trace was moved out again and get_output was
\* called once more: it panicked, and the circuit still holds the trace
\* with the records of the tick.
C37_Witness ==
  /\ ztPanicked
  /\ ztHist.started
  /\ ztHist.evals > 0
  /\ IsSome(ztHeld)
  /\ Get(ztHeld).z # EmptyZ

\* C38: the time stored in a Z1Trace has been advanced at level 0 by every
\* eval_strict_owned and at level scope + 1 by every clock_end(scope); it
\* is the time recede_to is given at the end of an epoch.
C38_ClockBookkeeping == ztTime = ztHist.expected

\* ------------------------------------------------------------ consumers of the operator's output trace

\* The circuit after partitioned_rolling_aggregate_inner on node 1: cell 1
\* is the operator's bound, TraceBounds 1 holds it and belongs to the
\* feedback Z1Trace, TraceBounds 2 is the unbounded one cached with the
\* output trace under the output node.
InitDownstream ==
  /\ IdleExcept("bounds")
  /\ tbCells = <<None>>
  /\ tbBounds = <<Bounded(<<1>>), Unbounded>>
  /\ tbZ1 = <<[node |-> 1, bounds |-> 1, trace |-> EmptyZ,
               effective_bound |-> None, dropped |-> EmptyZ, calls |-> << >>]>>
  /\ tbCache = [n \in Nodes |-> IF n = 1 THEN Some([trace |-> 1, bounds |-> 2]) ELSE None]
  /\ tbTick = 0
  /\ tbIntegral = EmptyZ
  /\ tbHist = [n \in Nodes |-> [some |-> 0, none |-> 0, ignored |-> 0, returned |-> {}]]

\* A consumer calls integrate_trace_with_bound / integrate_trace on the
\* operator's output stream.
ConsumerWithBound == IntegrateTraceWithBound(1, TRUE)
ConsumerUnbounded == IntegrateTraceWithBound(1, FALSE)

NextDownstream == ConsumerWithBound \/ ConsumerUnbounded \/ SetBound \/ BoundsTick

SpecDownstream == InitDownstream /\ [][NextDownstream]_<<vars, auxVars>>

\* C39: every request on the operator's output stream returns the
\* operator's feedback trace; the cached TraceBounds stays unbounded and
\* the bounds of the Z1Trace stay the operator's bound alone, every bound
\* a consumer passes being ignored; the Z1Trace reads the operator's bound,
\* drops only rows below it, and after a truncation call keeps no row
\* below it, whatever the consumers' bounds are set to.
C39_DownstreamBoundsInert ==
  /\ tbCache[1] = Some([trace |-> 1, bounds |-> 2])
  /\ Len(tbZ1) = 1
  /\ tbHist[1].returned \subseteq {1}
  /\ tbHist[1].ignored = tbHist[1].some
  /\ tbBounds = <<Bounded(<<1>>), Unbounded>>
  /\ IsSome(tbZ1[1].effective_bound) =>
       /\ IsSome(tbCells[1])
       /\ ~ValLess(Get(tbCells[1]), Get(tbZ1[1].effective_bound))
  /\ \A e \in tbZ1[1].dropped :
       /\ tbZ1[1].calls # << >>
       /\ ValLess(KeyOf(e), Get(tbZ1[1].effective_bound))
  /\ tbZ1[1].calls # << >> =>
       \A e \in tbZ1[1].trace : ~ValLess(KeyOf(e), Get(tbZ1[1].effective_bound))

\* Two consumers passed bounds, one set to a value above the operator's and
\* one left unset: the last tick dropped a row below the operator's bound
\* and kept a row that is below the set consumer bound.
C39_Witness ==
  /\ tbTick > 0
  /\ Len(tbCells) = 3
  /\ tbCells[1] = Some(<<1, None>>)
  /\ tbCells[2] = Some(<<2, None>>)
  /\ tbCells[3] = None
  /\ tbZ1[1].dropped # EmptyZ
  /\ \E e \in tbZ1[1].trace : ValLess(KeyOf(e), Get(tbCells[2]))

\* ------------------------------------------------------------ advance with any predicate

\* Slices on which |&x| x < needle is not monotone: every length, with up
\* to two elements that differ from the rest at any two places.
AnySlices ==
  {[i \in 1 .. q[1] |-> IF (i \in {q[2], q[3]}) = q[4] THEN 1 ELSE 568] :
     q \in {t \in (0 .. MaxSliceLen) \X (0 .. MaxSliceLen) \X (0 .. MaxSliceLen) \X BOOLEAN :
              t[2] <= t[3] /\ t[3] <= t[1]}}

\* Any of these slices, a needle and an element size are chosen.
InitAnyPred ==
  /\ IdleExcept("advance")
  /\ haystack \in AnySlices
  /\ needle \in Needles
  /\ elemSize \in ElemSizes
  /\ count = None
  /\ erased = None

SpecAnyPred == InitAnyPred /\ [][NextAdvance]_<<vars, auxVars>>

\* C40: whether or not the predicate is monotone on the slice, advance and
\* advance_erased return a value r with 0 <= r <= len, the predicate holds
\* at index r - 1 when r > 0, and every pointer advance_erased passes to
\* the predicate is the start of an element inside the slice.
C40_StaysInBounds ==
  /\ IsSome(count) =>
       /\ Get(count) \in 0 .. Len(haystack)
       /\ Get(count) > 0 => Pred(At(haystack, Get(count) - 1), needle)
  /\ IsSome(erased) =>
       /\ Get(erased).count \in 0 .. Len(haystack)
       /\ Get(erased).count > 0 => Pred(At(haystack, Get(erased).count - 1), needle)
       /\ \A ptr \in Get(erased).probes :
            ptr % elemSize = 0 /\ ptr + elemSize <= Len(haystack) * elemSize

\* Both functions ran on a slice where the predicate fails at an index
\* below the result and holds again at one above it, and the exponential
\* search probed the element at the result.
C40_Witness ==
  /\ IsSome(count)
  /\ IsSome(erased)
  /\ Get(count) > DEFAULT_SMALL_LIMIT + 1
  /\ Get(erased).count = Get(count)
  /\ \E i \in 0 .. Get(count) - 2 : ~Pred(At(haystack, i), needle)
  /\ \E i \in Get(count) + 1 .. Len(haystack) - 1 : Pred(At(haystack, i), needle)
  /\ Get(count) * elemSize \in Get(erased).probes
====
